---- MODULE Spec2Model ----
(***************************************************************************)
(* The A2A agent runtime of src/a2a_demo: the JSON-RPC envelope            *)
(* (models/jsonrpc.py), the task model (models/task.py) and the            *)
(* dispatcher and standard method handlers of BaseAgent                    *)
(* (agents/base_agent.py).                                                 *)
(*                                                                         *)
(* BaseAgent.run starts Flask's server with its default threaded=True, so  *)
(* several requests are served at once by threads that share self.tasks    *)
(* and self.methods without any lock.  Each request thread is a process    *)
(* whose steps are the statements of the handler that touch shared state;  *)
(* statements that only touch the thread's own locals are folded into the  *)
(* step that follows them.                                                 *)
(***************************************************************************)
EXTENDS Integers, Sequences, FiniteSets, TLC

\* ------------------------------------------------------------------ bounds
MaxCalls   == 3     \* createTask calls plus sendTaskMessage calls that pass validation
MaxClock   == 0     \* readings of datetime.utcnow() range over 0..MaxClock
MaxPairCalls == 4   \* the same count as MaxCalls, for two clients that create and send only
MaxRequestId == 4   \* requests one A2AClient posts

\* the request threads serving at once
Threads == {1, 2}

\* --------------------------------------------------------- program constants
PARSE_ERROR      == -32700
INVALID_REQUEST  == -32600
METHOD_NOT_FOUND == -32601
INVALID_PARAMS   == -32602
INTERNAL_ERROR   == -32603

\* ------------------------------------------------------------ Python values
\* None, {} and a non-empty dict; a key that a dict does not hold.
None      == [py |-> "None"]
EmptyDict == [py |-> "{}"]
SomeDict  == [py |-> "{k: v}"]
AbsentStr == "<absent>"
AbsentVal == [py |-> "<absent>"]

\* x or d, for x a dict or None
OrDict(x, d) == IF x = None \/ x = EmptyDict THEN d ELSE x

\* JSON ids: null, the integer 1 and the string "1" are three different ids.
NullId == [t |-> "null", v |-> ""]
AbsentId == [t |-> "absent", v |-> ""]
Ids == {NullId, [t |-> "int", v |-> "1"], [t |-> "str", v |-> "1"]}

\* ------------------------------------------------------------- task model
TaskStatus  == {"pending", "in_progress", "completed", "failed", "cancelled"}
MessageRole == {"user", "agent", "system"}

\* TaskMessage(role, content, timestamp=None, metadata): __post_init__ stamps
\* it with the clock reading `now`.  `call` is a history field: the number of
\* the sendTaskMessage call that built the message.
TaskMessage(role, content, metadata, now, call) ==
    [role |-> role, content |-> content, timestamp |-> now,
     metadata |-> metadata, call |-> call]

NoMessage == TaskMessage("", "", None, 0, 0)

TaskMessageToDict(m) ==
    [role |-> m.role, content |-> m.content, timestamp |-> m.timestamp,
     metadata |-> OrDict(m.metadata, EmptyDict), call |-> m.call]

\* Task(task_id, status, metadata): messages default to [], __post_init__
\* sets created_at and updated_at to one clock reading.
Task(task_id, status, metadata, now) ==
    [task_id |-> task_id, status |-> status, messages |-> <<>>,
     metadata |-> metadata, created_at |-> now, updated_at |-> now]

\* Task.add_message: append, then refresh updated_at.
AddMessage(task, message, now) ==
    [task EXCEPT !.messages = Append(@, message), !.updated_at = now]

TaskToDict(task) ==
    [task_id |-> task.task_id, status |-> task.status,
     messages |-> [i \in 1..Len(task.messages) |-> TaskMessageToDict(task.messages[i])],
     metadata |-> OrDict(task.metadata, EmptyDict),
     created_at |-> task.created_at, updated_at |-> task.updated_at]

\* TaskMessage.from_dict: MessageRole(data["role"]) and data["content"] may
\* raise; timestamp and metadata are read with get
TaskMessageDecodes(data) == data.role \in MessageRole /\ data.content # AbsentStr
TaskMessageFromDict(data) ==
    [role |-> data.role, content |-> data.content, timestamp |-> data.timestamp,
     metadata |-> data.metadata, call |-> data.call]

\* data.get("messages", [])
MessagesOf(data) == IF "messages" \in DOMAIN data THEN data.messages ELSE <<>>

\* Task.from_dict: data["task_id"], TaskStatus(data["status"]) and the decoding
\* of a message may raise
TaskDecodes(data) ==
    /\ data.task_id # AbsentStr
    /\ data.status \in TaskStatus
    /\ \A i \in 1..Len(MessagesOf(data)) : TaskMessageDecodes(MessagesOf(data)[i])
TaskFromDict(data) ==
    [task_id |-> data.task_id, status |-> data.status,
     messages |-> [i \in 1..Len(MessagesOf(data)) |-> TaskMessageFromDict(MessagesOf(data)[i])],
     metadata |-> data.metadata, created_at |-> data.created_at,
     updated_at |-> data.updated_at]

\* ---------------------------------------------------------------- envelope
JSONRPCError(code, message) == [code |-> code, message |-> message, data |-> None]

JSONRPCErrorToDict(e) ==
    IF e.data # None
    THEN [code |-> e.code, message |-> e.message, data |-> e.data]
    ELSE [code |-> e.code, message |-> e.message]

JSONRPCResponse(id, result, error) ==
    [id |-> id, result |-> result, error |-> error, jsonrpc |-> "2.0"]

\* a to_dict that writes every field of the dataclass, as dataclasses.asdict would
JSONRPCResponseAsDict(r) ==
    [jsonrpc |-> r.jsonrpc, id |-> r.id, result |-> r.result, error |-> r.error]

\* JSONRPCResponse.to_dict: the error key if self.error, else the result key.
JSONRPCResponseToDict(r) ==
    IF r.error # None
    THEN [jsonrpc |-> r.jsonrpc, id |-> r.id, error |-> JSONRPCErrorToDict(r.error)]
    ELSE [jsonrpc |-> r.jsonrpc, id |-> r.id, result |-> r.result]

\* A params dict: every key the handlers read, AbsentStr/AbsentVal where the
\* dict does not hold the key.
Params(task_id, role, content, metadata) ==
    [task_id |-> task_id, role |-> role, content |-> content, metadata |-> metadata]

NoParams == Params(AbsentStr, AbsentStr, AbsentStr, AbsentVal)

\* JSONRPCRequest.from_dict: data["method"] is required; params and id
\* default to None.
RequestDecodes(data) == data.method # AbsentStr

JSONRPCRequestFromDict(data) ==
    [method |-> data.method,
     params |-> IF data.params = AbsentVal THEN None ELSE data.params,
     id     |-> IF data.id = AbsentId THEN NullId ELSE data.id,
     jsonrpc |-> IF "jsonrpc" \in DOMAIN data THEN data.jsonrpc ELSE "2.0"]

\* JSONRPCRequest.to_dict: params is written unless it is None
JSONRPCRequestToDict(r) ==
    [jsonrpc |-> r.jsonrpc, method |-> r.method, id |-> r.id,
     params |-> IF r.params = None THEN AbsentVal ELSE r.params]

\* JSONRPCResponse.from_dict: data["error"]["code"] and ["message"] may raise
ResponseDecodes(data) ==
    "error" \in DOMAIN data => {"code", "message"} \subseteq DOMAIN data.error

\* JSONRPCResponse.from_dict: an error object is built if the body has the key
\* "error"; id, result and jsonrpc are read with get
JSONRPCResponseFromDict(data) ==
    [id |-> IF "id" \in DOMAIN data THEN data.id ELSE NullId,
     result |-> IF "result" \in DOMAIN data THEN data.result ELSE None,
     error |-> IF "error" \in DOMAIN data
               THEN [code |-> data.error.code, message |-> data.error.message,
                     data |-> IF "data" \in DOMAIN data.error THEN data.error.data ELSE None]
               ELSE None,
     jsonrpc |-> IF "jsonrpc" \in DOMAIN data THEN data.jsonrpc ELSE "2.0"]

\* rpc_request.params or {}
ParamsOrEmpty(p) == IF p = None THEN NoParams ELSE p

\* ------------------------------------------------------------------- state
VARIABLES
    tasks,      \* self.tasks: the dict's items, in insertion order, key -> Task object
    heap,       \* the Task objects ever constructed; a reference is an index
    methods,    \* self.methods: the registered method names
    clock,      \* the last reading of datetime.utcnow()
    sent,       \* sendTaskMessage calls that passed validation so far
    pc,         \* per request thread: the statement it is at
    req,        \* per request thread: the decoded JSONRPCRequest
    loc,        \* per request thread: the handler's locals
    out         \* the HTTP response the last step sent, with the request it
                \* answers, the handler's locals at its return and whether the
                \* handler returned or raised; NoOutput if the last step sent none

\* the orchestrator (OrchestratorAgent)
VARIABLES
    registered_agents,  \* self.registered_agents: items in insertion order, name -> AgentCard
    opc,                \* the statement handle_task is at
    oloc,               \* locals of handle_task, _orchestrate_task and _delegate_to_agent
    calls,              \* the requests.post calls of the current handle_task, in order
    oret                \* what the last step returned to its caller; NoReturn if nothing

\* the client (A2AClient)
VARIABLES
    request_id,         \* self._request_id
    cpc,                \* the statement chat is at
    cloc,               \* locals of chat: message, task_id
    ccalls,             \* the requests.post calls of the current operation, in order
    cret                \* what the last operation returned or raised; NoClientReturn if nothing

\* the codecs of the data model (to_dict, from_dict), applied to one value
VARIABLES
    value,              \* an object of the data model, as constructed
    wire,               \* a JSON body: value.to_dict(), or a body received
    back                \* from_dict(wire), or the exception it raised

avars == <<tasks, heap, methods, clock, sent, pc, req, loc, out>>
ovars == <<registered_agents, opc, oloc, calls, oret>>
cvars == <<request_id, cpc, cloc, ccalls, cret>>
kvars == <<value, wire, back>>
vars == <<tasks, heap, methods, clock, sent, pc, req, loc, out,
          registered_agents, opc, oloc, calls, oret,
          request_id, cpc, cloc, ccalls, cret, value, wire, back>>
store == <<tasks, heap>>

StandardMethods == {"getAgentCard", "createTask", "sendTaskMessage", "getTask", "listTasks"}

NoRequest  == [method |-> AbsentStr, params |-> None, id |-> AbsentId, jsonrpc |-> "2.0"]
\* locals of _send_task_message and _create_task: task, message; `before` and
\* `outcome` are history fields: the length of task.messages when the handler
\* looked the task up, and whether handle_task returned or raised
NoLocals   == [task |-> 0, message |-> NoMessage, before |-> 0, outcome |-> ""]
\* `exc` and `rejected` are history fields too: str(e) of the exception caught,
\* and the body a response of the route itself (lines 86-92, 98-104) answers
NoOutput   == [thread |-> 0, req |-> NoRequest, loc |-> NoLocals, handler |-> "",
               exc |-> "", rejected |-> None, status |-> 0, body |-> None]

\* dict operations on self.tasks
HasKey(d, k) == \E i \in 1..Len(d) : d[i].key = k
Lookup(d, k) == d[CHOOSE i \in 1..Len(d) : d[i].key = k].ref
\* d.setdefault(k, ref): an existing key keeps its value
StoreIfAbsent(d, k, ref) ==
    IF \E i \in 1..Len(d) : d[i].key = k THEN d ELSE Append(d, [key |-> k, ref |-> ref])

\* del d[k]; d[k] = ref: the key goes last
StoreKeyLast(d, k, ref) ==
    LET kept == {i \in 1..Len(d) : d[i].key # k}
        Nth(n) == CHOOSE i \in kept : Cardinality({j \in kept : j < i}) = n - 1
    IN Append([n \in 1..Cardinality(kept) |-> d[Nth(n)]], [key |-> k, ref |-> ref])

\* d[k] = ref: an existing key keeps its place, a new key goes last
StoreKey(d, k, ref) ==
    IF HasKey(d, k)
    THEN [i \in 1..Len(d) |-> IF d[i].key = k THEN [key |-> k, ref |-> ref] ELSE d[i]]
    ELSE Append(d, [key |-> k, ref |-> ref])
Keys(d) == {d[i].key : i \in 1..Len(d)}

\* str(uuid.uuid4()): a fresh identifier for every call
UuidStr == <<"u1", "u2", "u3", "u4", "u5">>
Uuid4 == UuidStr[Len(heap) + 1]

\* datetime.utcnow(): the clock does not run backwards between two readings
Now(c) == {c} \cup (IF c < MaxClock THEN {c + 1} ELSE {})

\* ------------------------------------------------------------------ inputs
\* task ids a caller may name: the empty string, an id of its own choosing,
\* and every id a createTask has returned
CreateIdArgs == {AbsentStr, "", "t1"}
Returned(ref) == \A t \in Threads : ~(pc[t] = "create_return" /\ loc[t].task = ref)
TaskIdArgs ==
    {AbsentStr, "", "t1"} \cup {heap[i].task_id : i \in {j \in 1..Len(heap) : Returned(j)}}
ContentArgs == {AbsentStr, "c1"}

ParamsFor(method, roles, mds) ==
    CASE method = "createTask" ->
           {AbsentVal} \cup
           {Params(tid, AbsentStr, AbsentStr, md) : tid \in CreateIdArgs, md \in mds}
      [] method = "sendTaskMessage" ->
           {Params(tid, role, content, AbsentVal) :
                tid \in TaskIdArgs, role \in roles, content \in ContentArgs}
      [] method = "getTask" ->
           {Params(tid, AbsentStr, AbsentStr, AbsentVal) : tid \in TaskIdArgs}
      [] OTHER -> {AbsentVal}

MethodArgs == StandardMethods \cup {"custom", AbsentStr}

\* the JSON bodies posted to "/": {} and the dicts with or without a method
EmptyBody == [method |-> AbsentStr, params |-> AbsentVal, id |-> AbsentId]
BodiesOf(ids, roles, mds) ==
    {EmptyBody} \cup
    UNION {{[method |-> m, params |-> p, id |-> i] :
                p \in ParamsFor(m, roles, mds), i \in ids} : m \in MethodArgs}

\* requests of concurrent clients: one id, the default role or an invalid one
ClientBodies == BodiesOf({[t |-> "int", v |-> "1"]}, {AbsentStr, "bogus"}, {AbsentVal})
\* requests of one client: every kind of id, roles and metadata given or not
AllBodies == BodiesOf(Ids \cup {AbsentId}, {AbsentStr, "system", "bogus"}, {AbsentVal, SomeDict})

\* --------------------------------------------------------------- dispatcher
\* _handle_request, line 122: the lookup in self.methods
MethodRegistered(method) == method \in methods

\* the unknown method reported with the code of an invalid request
MethodNotFoundAsInvalidRequest(r) ==
    JSONRPCResponse(r.id, None, JSONRPCError(INVALID_REQUEST, "Method not found"))

\* _handle_request, lines 123-126
MethodNotFoundResponse(r) ==
    JSONRPCResponse(r.id, None, JSONRPCError(METHOD_NOT_FOUND, "Method not found"))

\* a result envelope built without the request's id
ResultResponseWithoutId(r, result) == JSONRPCResponse(NullId, result, None)

\* _handle_request, line 131
ResultResponse(r, result) == JSONRPCResponse(r.id, result, None)

\* an internal error with a fixed message and str(e) in the data field
InternalErrorResponseWithData(r, e) ==
    JSONRPCResponse(r.id, None,
        [code |-> INTERNAL_ERROR, message |-> "Internal error", data |-> [py |-> e]])

\* _handle_request, lines 132-136: str(e) goes into the error's message
InternalErrorResponse(r, e) ==
    JSONRPCResponse(r.id, None, JSONRPCError(INTERNAL_ERROR, e))

\* handle_jsonrpc, lines 87-92 and 99-104: the envelopes built outside
\* _handle_request carry id=None
InvalidJsonResponse == JSONRPCResponse(NullId, None, JSONRPCError(INVALID_PARAMS, "Invalid JSON"))
RouteErrorResponse(e) == JSONRPCResponse(NullId, None, JSONRPCError(INTERNAL_ERROR, e))

\* return jsonify(response.to_dict()), status: the thread has answered and is
\* free for the next request
Answer(t, r, response, status, handler, exc, rejected) ==
    /\ pc' = [pc EXCEPT ![t] = "idle"]
    /\ req' = [req EXCEPT ![t] = NoRequest]
    /\ loc' = [loc EXCEPT ![t] = NoLocals]
    /\ out' = [thread |-> t, req |-> r, loc |-> loc[t], handler |-> handler,
               exc |-> exc, rejected |-> rejected,
               status |-> status, body |-> JSONRPCResponseToDict(response)]
    /\ UNCHANGED <<ovars, cvars, kvars>>

\* a handler's exception left to the route's except clause: status 500, id None
RaisePropagated(t, r, e) == Answer(t, r, RouteErrorResponse(e), 500, "raised", e, None)

\* _handle_request, lines 129-131: the handler returned `result`
Return(t, r, result) == Answer(t, r, ResultResponse(r, result), 200, "returned", "", None)

\* _handle_request, lines 132-136: the handler raised e
Raise(t, r, e) == Answer(t, r, InternalErrorResponse(r, e), 200, "raised", e, None)

\* the thread moves on inside its handler
Goto(t, r, label, locals) ==
    /\ pc' = [pc EXCEPT ![t] = label]
    /\ req' = [req EXCEPT ![t] = r]
    /\ loc' = [loc EXCEPT ![t] = locals]
    /\ out' = NoOutput
    /\ UNCHANGED <<ovars, cvars, kvars>>

\* ----------------------------------------------------------------- handlers
\* get_agent_card().to_dict() of the concrete agent
AgentCardDict == [name |-> "Agent", skills |-> <<"skill">>]

\* _get_agent_card
GetAgentCard(t, r) ==
    /\ Return(t, r, AgentCardDict)
    /\ UNCHANGED <<tasks, heap, methods, clock, sent>>

\* _create_task, lines 158-167: build the Task and store it under task_id
CreateTask(t, r) ==
    LET params   == ParamsOrEmpty(r.params)
        task_id  == IF params.task_id = AbsentStr THEN Uuid4 ELSE params.task_id
        metadata == IF params.metadata = AbsentVal THEN EmptyDict ELSE params.metadata
        ref      == Len(heap) + 1
    IN \E now \in Now(clock) :
        /\ heap' = Append(heap, Task(task_id, "pending", metadata, now))
        /\ tasks' = StoreKey(tasks, task_id, ref)
        /\ clock' = now
        /\ Goto(t, r, "create_return", [NoLocals EXCEPT !.task = ref])
        /\ UNCHANGED <<methods, sent>>

\* _create_task, line 168: return task.to_dict()
CreateReturn(t) ==
    /\ pc[t] = "create_return"
    /\ out = NoOutput
    /\ Return(t, req[t], TaskToDict(heap[loc[t].task]))
    /\ UNCHANGED <<tasks, heap, methods, clock, sent>>

\* a sendTaskMessage that creates the task it does not find
SendTaskMessageUpsert(t, r) ==
    LET params == ParamsOrEmpty(r.params)
        role   == IF params.role = AbsentStr THEN "user" ELSE params.role
        found  == HasKey(tasks, params.task_id)
        ref    == IF found THEN Lookup(tasks, params.task_id) ELSE Len(heap) + 1
    IN IF params.task_id \in {AbsentStr, ""}
       THEN /\ Raise(t, r, "Task not found")
            /\ UNCHANGED <<tasks, heap, methods, clock, sent>>
       ELSE IF role \notin MessageRole \/ params.content = AbsentStr
       THEN /\ Raise(t, r, "invalid params")
            /\ UNCHANGED <<tasks, heap, methods, clock, sent>>
       ELSE \E now \in Now(clock) :
            /\ heap' = IF found THEN heap
                       ELSE Append(heap, Task(params.task_id, "pending", EmptyDict, now))
            /\ tasks' = IF found THEN tasks ELSE StoreKey(tasks, params.task_id, ref)
            /\ sent' = sent + 1
            /\ clock' = now
            /\ Goto(t, r, "send_add_message",
                    [NoLocals EXCEPT
                       !.task = ref,
                       !.before = IF found THEN Len(heap[ref].messages) ELSE 0,
                       !.message = TaskMessage(role, params.content, None, now, sent + 1)])
            /\ UNCHANGED methods

\* a sendTaskMessage that refuses a task whose processing has ended
SendTaskMessageOnce(t, r) ==
    LET params == ParamsOrEmpty(r.params)
        role   == IF params.role = AbsentStr THEN "user" ELSE params.role
        closed == /\ params.task_id \notin {AbsentStr, ""}
                  /\ \E i \in 1..Len(tasks) :
                        /\ tasks[i].key = params.task_id
                        /\ heap[tasks[i].ref].status \in {"completed", "failed"}
    IN IF closed \/ params.task_id \in {AbsentStr, ""}
          \/ ~(\E i \in 1..Len(tasks) : tasks[i].key = params.task_id)
       THEN /\ Raise(t, r, "Task not found")
            /\ UNCHANGED <<tasks, heap, methods, clock, sent>>
       ELSE IF role \notin MessageRole
       THEN /\ Raise(t, r, "not a valid MessageRole")
            /\ UNCHANGED <<tasks, heap, methods, clock, sent>>
       ELSE IF params.content = AbsentStr
       THEN /\ Raise(t, r, "'content'")
            /\ UNCHANGED <<tasks, heap, methods, clock, sent>>
       ELSE \E now \in Now(clock) :
            /\ sent' = sent + 1
            /\ clock' = now
            /\ Goto(t, r, "send_add_message",
                    [NoLocals EXCEPT
                       !.task = Lookup(tasks, params.task_id),
                       !.before = Len(heap[Lookup(tasks, params.task_id)].messages),
                       !.message = TaskMessage(role, params.content,
                                     IF params.metadata = AbsentVal THEN None
                                     ELSE params.metadata, now, sent + 1)])
            /\ UNCHANGED <<tasks, heap, methods>>

\* a sendTaskMessage that marks the task failed when the params are invalid
SendTaskMessageMarking(t, r) ==
    LET params == ParamsOrEmpty(r.params)
        role   == IF params.role = AbsentStr THEN "user" ELSE params.role
    IN IF params.task_id \in {AbsentStr, ""}
          \/ ~(\E i \in 1..Len(tasks) : tasks[i].key = params.task_id)
       THEN /\ Raise(t, r, "Task not found")
            /\ UNCHANGED <<tasks, heap, methods, clock, sent>>
       ELSE IF role \notin MessageRole \/ params.content = AbsentStr
       THEN /\ Raise(t, r, "invalid params")
            /\ heap' = [heap EXCEPT ![Lookup(tasks, params.task_id)].status = "failed"]
            /\ UNCHANGED <<tasks, methods, clock, sent>>
       ELSE \E now \in Now(clock) :
            /\ sent' = sent + 1
            /\ clock' = now
            /\ Goto(t, r, "send_add_message",
                    [NoLocals EXCEPT
                       !.task = Lookup(tasks, params.task_id),
                       !.before = Len(heap[Lookup(tasks, params.task_id)].messages),
                       !.message = TaskMessage(role, params.content,
                                     IF params.metadata = AbsentVal THEN None
                                     ELSE params.metadata, now, sent + 1)])
            /\ UNCHANGED <<tasks, heap, methods>>

\* not task_id or task_id not in self.tasks (lines 180 and 226)
TaskNotFound(task_id) ==
    \/ task_id = AbsentStr
    \/ task_id = ""
    \/ ~HasKey(tasks, task_id)

\* _send_task_message, lines 179-190: look the task up and build the inbound
\* TaskMessage; MessageRole(...) and params["content"] may raise
SendTaskMessage(t, r) ==
    LET params == ParamsOrEmpty(r.params)
        role   == IF params.role = AbsentStr THEN "user" ELSE params.role
    IN IF TaskNotFound(params.task_id)
       THEN /\ Raise(t, r, "Task not found")
            /\ UNCHANGED <<tasks, heap, methods, clock, sent>>
       ELSE IF role \notin MessageRole
       THEN /\ Raise(t, r, "not a valid MessageRole")
            /\ UNCHANGED <<tasks, heap, methods, clock, sent>>
       ELSE IF params.content = AbsentStr
       THEN /\ Raise(t, r, "'content'")
            /\ UNCHANGED <<tasks, heap, methods, clock, sent>>
       ELSE \E now \in Now(clock) :
            /\ sent' = sent + 1
            /\ clock' = now
            /\ Goto(t, r, "send_add_message",
                    [NoLocals EXCEPT
                       !.task = Lookup(tasks, params.task_id),
                       !.before = Len(heap[Lookup(tasks, params.task_id)].messages),
                       !.message = TaskMessage(role, params.content,
                                     IF params.metadata = AbsentVal THEN None
                                     ELSE params.metadata, now, sent + 1)])
            /\ UNCHANGED <<tasks, heap, methods>>

\* line 191: task.add_message(message)
SendAddMessage(t) ==
    /\ pc[t] = "send_add_message"
    /\ out = NoOutput
    /\ \E now \in Now(clock) :
        /\ heap' = [heap EXCEPT ![loc[t].task] = AddMessage(@, loc[t].message, now)]
        /\ clock' = now
    /\ Goto(t, req[t], "send_in_progress", loc[t])
    /\ UNCHANGED <<tasks, methods, sent>>

\* line 192: task.status = TaskStatus.IN_PROGRESS
SendInProgress(t) ==
    /\ pc[t] = "send_in_progress"
    /\ out = NoOutput
    /\ heap' = [heap EXCEPT ![loc[t].task].status = "in_progress"]
    /\ Goto(t, req[t], "send_handle", loc[t])
    /\ UNCHANGED <<tasks, methods, clock, sent>>

\* a handler failure recorded as a cancellation
SendHandleCancelling(t) ==
    /\ pc[t] = "send_handle"
    /\ out = NoOutput
    /\ \/ \E n1 \in Now(clock) : \E n2 \in Now(n1) :
            /\ heap' = [heap EXCEPT ![loc[t].task] =
                          AddMessage(@, TaskMessage("agent", "response", None, n1,
                                                    loc[t].message.call), n2)]
            /\ clock' = n2
            /\ Goto(t, req[t], "send_completed", [loc[t] EXCEPT !.outcome = "returned"])
       \/ /\ heap' = [heap EXCEPT ![loc[t].task].status = "cancelled"]
          /\ clock' = clock
          /\ Goto(t, req[t], "send_add_error", [loc[t] EXCEPT !.outcome = "raised"])
    /\ UNCHANGED <<tasks, methods, sent>>

\* lines 195-203 and 206-207: self.handle_task(task_id, message) returns the
\* response content, which is built into the agent's message and appended; or
\* it raises, and the except clause sets the status to failed
SendHandle(t) ==
    /\ pc[t] = "send_handle"
    /\ out = NoOutput
    /\ \/ \E n1 \in Now(clock) : \E n2 \in Now(n1) :
            /\ heap' = [heap EXCEPT ![loc[t].task] =
                          AddMessage(@, TaskMessage("agent", "response", None, n1,
                                                    loc[t].message.call), n2)]
            /\ clock' = n2
            /\ Goto(t, req[t], "send_completed", [loc[t] EXCEPT !.outcome = "returned"])
       \/ /\ heap' = [heap EXCEPT ![loc[t].task].status = "failed"]
          /\ clock' = clock
          /\ Goto(t, req[t], "send_add_error", [loc[t] EXCEPT !.outcome = "raised"])
    /\ UNCHANGED <<tasks, methods, sent>>

\* the status written to every task that is in progress
SendCompletedAll(t) ==
    /\ pc[t] = "send_completed"
    /\ out = NoOutput
    /\ heap' = [k \in 1..Len(heap) |->
                  IF heap[k].status = "in_progress" \/ k = loc[t].task
                  THEN [heap[k] EXCEPT !.status = "completed"]
                  ELSE heap[k]]
    /\ Goto(t, req[t], "send_return", loc[t])
    /\ UNCHANGED <<tasks, methods, clock, sent>>

\* line 204: task.status = TaskStatus.COMPLETED
SendCompleted(t) ==
    /\ pc[t] = "send_completed"
    /\ out = NoOutput
    /\ heap' = [heap EXCEPT ![loc[t].task].status = "completed"]
    /\ Goto(t, req[t], "send_return", loc[t])
    /\ UNCHANGED <<tasks, methods, clock, sent>>

\* lines 208-212: the system message describing the error is built and appended
SendAddError(t) ==
    /\ pc[t] = "send_add_error"
    /\ out = NoOutput
    /\ \E n1 \in Now(clock) : \E n2 \in Now(n1) :
        /\ heap' = [heap EXCEPT ![loc[t].task] =
                      AddMessage(@, TaskMessage("system", "Error processing task",
                                                None, n1, loc[t].message.call), n2)]
        /\ clock' = n2
    /\ Goto(t, req[t], "send_return", loc[t])
    /\ UNCHANGED <<tasks, methods, sent>>

\* line 214: return task.to_dict()
SendReturn(t) ==
    /\ pc[t] = "send_return"
    /\ out = NoOutput
    /\ Return(t, req[t], TaskToDict(heap[loc[t].task]))
    /\ UNCHANGED <<tasks, heap, methods, clock, sent>>

\* a getTask that takes the task out of the store (self.tasks.pop)
GetTaskPopping(t, r) ==
    LET params == ParamsOrEmpty(r.params)
        kept   == SelectSeq(tasks, LAMBDA e : e.key # params.task_id)
    IN IF TaskNotFound(params.task_id)
       THEN /\ Raise(t, r, "Task not found")
            /\ UNCHANGED <<tasks, heap, methods, clock, sent>>
       ELSE /\ Return(t, r, TaskToDict(heap[Lookup(tasks, params.task_id)]))
            /\ tasks' = kept
            /\ UNCHANGED <<heap, methods, clock, sent>>

\* _get_task
GetTask(t, r) ==
    LET params == ParamsOrEmpty(r.params)
    IN /\ IF TaskNotFound(params.task_id)
          THEN Raise(t, r, "Task not found")
          ELSE Return(t, r, TaskToDict(heap[Lookup(tasks, params.task_id)]))
       /\ UNCHANGED <<tasks, heap, methods, clock, sent>>

\* _list_tasks
ListTasks(t, r) ==
    /\ Return(t, r, [tasks |-> [i \in 1..Len(tasks) |-> TaskToDict(heap[tasks[i].ref])]])
    /\ UNCHANGED <<tasks, heap, methods, clock, sent>>

\* a handler added through register_method: it returns a value, returns None
\* or raises
CustomHandler(t, r) ==
    /\ \E outcome \in {"value", "none", "raises"} :
         CASE outcome = "value" -> Return(t, r, SomeDict)
           [] outcome = "none" -> Return(t, r, None)
           [] OTHER -> Raise(t, r, "custom failure")
    /\ UNCHANGED <<tasks, heap, methods, clock, sent>>

\* _handle_request, lines 128-130: handler = self.methods[method]; handler(params)
Invoke(t, r) ==
    CASE r.method = "getAgentCard"    -> GetAgentCard(t, r)
      [] r.method = "createTask"      -> CreateTask(t, r)
      [] r.method = "sendTaskMessage" -> SendTaskMessage(t, r)
      [] r.method = "getTask"         -> GetTask(t, r)
      [] r.method = "listTasks"       -> ListTasks(t, r)
      [] OTHER                        -> CustomHandler(t, r)

\* _handle_request
HandleRequest(t, r) ==
    IF ~MethodRegistered(r.method)
    THEN /\ Answer(t, r, MethodNotFoundResponse(r), 200, "", "", None)
         /\ UNCHANGED <<tasks, heap, methods, clock, sent>>
    ELSE Invoke(t, r)

\* handle_jsonrpc: one POST to "/" is taken up by an idle thread; `limit` caps
\* the createTask calls plus the sendTaskMessage calls that pass validation
HandleJsonrpcUpTo(t, bodies, limit) ==
    /\ pc[t] = "idle"
    /\ out = NoOutput
    /\ \E data \in bodies :
        /\ data.method \in {"createTask", "sendTaskMessage"} => Len(heap) + sent < limit
        /\ IF data = EmptyBody
           THEN /\ Answer(t, NoRequest, InvalidJsonResponse, 400, "", "", data)
                /\ UNCHANGED <<tasks, heap, methods, clock, sent>>
           ELSE IF ~RequestDecodes(data)
           THEN /\ Answer(t, NoRequest, RouteErrorResponse("'method'"), 500, "", "'method'", data)
                /\ UNCHANGED <<tasks, heap, methods, clock, sent>>
           ELSE HandleRequest(t, JSONRPCRequestFromDict(data))

HandleJsonrpc(t, bodies) == HandleJsonrpcUpTo(t, bodies, MaxCalls)

\* the response has left the server
Deliver ==
    /\ out # NoOutput
    /\ out' = NoOutput
    /\ UNCHANGED <<tasks, heap, methods, clock, sent, pc, req, loc>>
    /\ UNCHANGED <<ovars, cvars, kvars>>

\* register_method(method_name, handler)
RegisterMethod ==
    /\ "custom" \notin methods
    /\ out = NoOutput
    /\ methods' = methods \cup {"custom"}
    /\ out' = NoOutput
    /\ UNCHANGED <<tasks, heap, clock, sent, pc, req, loc>>
    /\ UNCHANGED <<ovars, cvars, kvars>>

\* =============================================================== orchestrator
\* JSON values a peer may send where the code expects a string
JsonStr(x)  == [t |-> "str", v |-> x]
JsonNull    == [t |-> "null", v |-> ""]
JsonAbsent  == [t |-> "absent", v |-> ""]
IsStr(x)    == x.t = "str"

CalculatorName == JsonStr("CalculatorAgent")
TranslatorName == JsonStr("TranslatorAgent")
PeerUrls == {"http://localhost:5001", "http://localhost:5002"}

\* the "result" of a getAgentCard response, as the peer sent it
CardDict(name, description, url) == [name |-> name, description |-> description, url |-> url]
NoCardDict == CardDict(JsonAbsent, JsonAbsent, JsonAbsent)
\* a card under the translator's name that declares a skill "calculate"
SkilledCardDict ==
    [name |-> TranslatorName, description |-> JsonStr("calculate"),
     url |-> JsonStr("http://localhost:5002"),
     skills |-> <<[name |-> "calculate", description |-> "solve", parameters |-> EmptyDict,
                   interaction_modes |-> <<"text">>]>>]
CardDicts ==
    {CardDict(CalculatorName, JsonStr("d"), JsonStr(u)) : u \in PeerUrls}
    \cup {SkilledCardDict}
    \cup {CardDict(TranslatorName, JsonStr("d"), JsonStr("http://localhost:5002")),
          CardDict(JsonNull, JsonStr("d"), JsonStr("http://localhost:5002"))}
    \cup {CardDict(JsonAbsent, JsonStr("d"), JsonStr("http://localhost:5001")),
          CardDict(CalculatorName, JsonAbsent, JsonStr("http://localhost:5001")),
          CardDict(CalculatorName, JsonStr("d"), JsonAbsent)}

\* AgentCard.from_dict: data["name"], data["description"], data["url"] must be
\* there; no value is checked for its type
CardDecodes(data) ==
    /\ data.name # JsonAbsent
    /\ data.description # JsonAbsent
    /\ data.url # JsonAbsent
\* Skill.to_dict and the Skill(...) built by AgentCard.from_dict
SkillToDict(skill) ==
    [name |-> skill.name, description |-> skill.description,
     parameters |-> skill.parameters, interaction_modes |-> skill.interaction_modes]
SkillFromDict(s) ==
    [name |-> s.name, description |-> s.description,
     parameters |-> s.parameters, interaction_modes |-> s.interaction_modes]
\* skills, version, supported_interaction_modes and metadata are read with get
AgentCardFromDict(data) ==
    [name |-> data.name, description |-> data.description, url |-> data.url,
     skills |-> IF "skills" \in DOMAIN data
                THEN [i \in 1..Len(data.skills) |-> SkillFromDict(data.skills[i])]
                ELSE <<>>,
     version |-> IF "version" \in DOMAIN data THEN data.version ELSE "1.0",
     supported_interaction_modes |->
         IF "supported_interaction_modes" \in DOMAIN data
         THEN data.supported_interaction_modes ELSE <<"text">>,
     metadata |-> IF "metadata" \in DOMAIN data THEN data.metadata ELSE None]
\* AgentCard.to_dict: metadata is written as self.metadata or {}
AgentCardToDict(card) ==
    [name |-> card.name, description |-> card.description, url |-> card.url,
     version |-> card.version,
     skills |-> [i \in 1..Len(card.skills) |-> SkillToDict(card.skills[i])],
     supported_interaction_modes |-> card.supported_interaction_modes,
     metadata |-> OrDict(card.metadata, EmptyDict)]
NoCard == AgentCardFromDict(NoCardDict)

\* a card as the data model has it: name, description and url are strings
WellFormedCard(data) == IsStr(data.name) /\ IsStr(data.description) /\ IsStr(data.url)

\* what requests.post(agent_url, getAgentCard) may give: an exception
\* (unreachable, timeout), a status other than 200, or status 200 with a body
\* that is not JSON, has no "result", has result null, or has a dict as result
HttpResponse(kind, status, json, card) ==
    [kind |-> kind, status |-> status, json |-> json, card |-> card]
NoResponse == HttpResponse("", 0, "", NoCardDict)
RegisterResponses ==
    {HttpResponse("raises", 0, "", NoCardDict),
     HttpResponse("http", 500, "no_result", NoCardDict),
     HttpResponse("http", 200, "invalid", NoCardDict),
     HttpResponse("http", 200, "no_result", NoCardDict),
     HttpResponse("http", 200, "result_null", NoCardDict)}
    \cup {HttpResponse("http", 200, "result", c) : c \in CardDicts}

\* register_agent, lines 69-73: the branch that stores the card
RegisterStores(response) ==
    /\ response.kind = "http"
    /\ response.status = 200
    /\ response.json = "result"
    /\ CardDecodes(response.card)

\* a value returned by handle_task or one of its helpers: a message made of a
\* fixed text, the agent it names, the names it lists and the sections it joins
Message(text, agent, names, parts) ==
    [text |-> text, agent |-> agent, names |-> names, parts |-> parts]
NoResult == Message(<<>>, JsonAbsent, <<>>, <<>>)

\* what a peer may answer to createTask and to sendTaskMessage: as for
\* getAgentCard, with a task as the result
TaskMessageDict(role, content) == [role |-> role, content |-> content]
PeerResponse(kind, status, json, task_id, has_messages, messages) ==
    [kind |-> kind, status |-> status, json |-> json, task_id |-> task_id,
     has_messages |-> has_messages, messages |-> messages]
NoPeerResponse == PeerResponse("", 0, "", JsonAbsent, FALSE, <<>>)

\* locals of handle_task and its helpers: content, agent_card (calc_agent or
\* translator_agent), create_response, task_id, results. History fields:
\* `known`, the names registered when handle_task was entered; `found` and
\* `missed`, the sections whose keywords matched and whose agent was or was
\* not registered at the lookup. Of _list_agents: `size`, the number of items
\* of the dict when the iterator of line 112 was made, and `seen`, the items
\* (agent_name, agent_card) the loop has been given
NoOLocals ==
    [content |-> {}, orchestrating |-> FALSE, section |-> "", agent_card |-> NoCard,
     known |-> {}, found |-> {}, missed |-> {}, create_response |-> NoPeerResponse,
     task_id |-> JsonAbsent, results |-> <<>>, size |-> 0, seen |-> <<>>]

\* the value a call returned (`ok` for register_agent, `result` for the
\* others) or that it raised, with history fields: the response register_agent
\* got, the method and response that ended a delegation, the locals and the
\* requests.post calls of handle_task at its return
NoReturn ==
    [op |-> "", ok |-> FALSE, raised |-> FALSE, result |-> NoResult,
     response |-> NoResponse, method |-> "", peer |-> NoPeerResponse,
     loc |-> NoOLocals, calls |-> <<>>]

\* a register_agent that stores the card before its url is set
RegisterAgentPartial ==
    /\ oret = NoReturn
    /\ \E agent_url \in PeerUrls, response \in RegisterResponses :
         /\ registered_agents' =
               IF RegisterStores(response)
               THEN StoreKey(registered_agents, response.card.name,
                             [AgentCardFromDict(response.card) EXCEPT !.url = JsonAbsent])
               ELSE registered_agents
         /\ oret' = [NoReturn EXCEPT !.op = "register_agent",
                                     !.ok = RegisterStores(response),
                                     !.response = response]
    /\ UNCHANGED <<opc, oloc, calls>>
    /\ UNCHANGED <<avars, cvars, kvars>>

\* register_agent(agent_url)
RegisterAgent ==
    /\ oret = NoReturn
    /\ \E agent_url \in PeerUrls, response \in RegisterResponses :
         /\ registered_agents' =
               IF RegisterStores(response)
               THEN StoreKey(registered_agents, response.card.name,
                             AgentCardFromDict(response.card))
               ELSE registered_agents
         /\ oret' = [NoReturn EXCEPT !.op = "register_agent",
                                     !.ok = RegisterStores(response),
                                     !.response = response]
    /\ UNCHANGED <<opc, oloc, calls>>
    /\ UNCHANGED <<avars, cvars, kvars>>

\* the caller has the returned value
Observe ==
    /\ oret # NoReturn
    /\ oret' = NoReturn
    /\ UNCHANGED <<registered_agents, opc, oloc, calls>>
    /\ UNCHANGED <<avars, cvars, kvars>>

\* str.lower() on the words and phrases that occur here
Lower(w) ==
    CASE w = "No" -> "no"
      [] w = "I" -> "i"
      [] w = "I'm" -> "i'm"
      [] w = "Failed" -> "failed"
      [] w = "Error" -> "error"
      [] w = "Calculate" -> "calculate"
      [] w = "Translate" -> "translate"
      [] w = "List Agents" -> "list agents"
      [] OTHER -> w

\* a message's content, as the set of keywords and phrases that occur in it
Contents ==
    {{"Calculate", "+"}, {"translate", "spanish"}, {"calculate", "Translate"},
     {"hello"}, {"List Agents"}, {"what agents", "calculate"}, {}}

\* handle_task, line 95, and _orchestrate_task, lines 135 and 142
DiscoveryPhrases == {"list agents", "discover agents", "what agents"}
CalculatorWords  == {"calculate", "solve", "+", "-", "*", "/", "=", "equation"}
TranslatorWords  == {"translate", "spanish", "french", "german"}
\* any(word in content for word in words)
AnyIn(words, content) == \E word \in words : word \in content

\* the fixed texts, word by word
NoAgentsText     == <<"No", "agents", "are", "currently", "registered.">>
HaveAccessText   == <<"I", "have", "access", "to">>
NotSureText      == <<"I'm", "not", "sure", "which", "agent", "can", "handle", "this", "task.">>
FailedCreateText == <<"Failed", "to", "create", "task", "on">>
FailedSendText   == <<"Failed", "to", "send", "message", "to">>
ErrorText        == <<"Error", "delegating", "to">>
NoResponseText   == <<"No", "response", "from", "agent">>

\* the order of a dict's keys
KeySeq(d) == [i \in 1..Len(d) |-> d[i].key]

\* _list_agents without the test for an empty registry
ListAgentsAlwaysEnumerates(seen) ==
    Message(HaveAccessText, JsonAbsent, KeySeq(seen), <<>>)

\* _list_agents: the test of line 107, and the text lines 110-118 build from
\* the items the loop has seen
ListAgents(seen) ==
    IF registered_agents = <<>>
    THEN Message(NoAgentsText, JsonAbsent, <<>>, <<>>)
    ELSE Message(HaveAccessText, JsonAbsent, KeySeq(seen), <<>>)

FailedResponses ==
    {PeerResponse("raises", 0, "", JsonAbsent, FALSE, <<>>),
     PeerResponse("http", 500, "no_result", JsonAbsent, FALSE, <<>>),
     PeerResponse("http", 200, "invalid", JsonAbsent, FALSE, <<>>),
     PeerResponse("http", 200, "no_result", JsonAbsent, FALSE, <<>>),
     PeerResponse("http", 200, "result_null", JsonAbsent, FALSE, <<>>)}
CreateResponses ==
    FailedResponses
    \cup {PeerResponse("http", 200, "result", JsonAbsent, TRUE, <<>>),
          PeerResponse("http", 200, "result", JsonStr("p1"), TRUE, <<>>)}
SendResponses ==
    FailedResponses
    \cup {PeerResponse("http", 200, "result", JsonStr("p1"), FALSE, <<>>)}
    \cup {PeerResponse("http", 200, "result", JsonStr("p1"), TRUE, ms) :
            ms \in {<<>>,
                    <<TaskMessageDict(JsonStr("user"), <<"hello">>),
                      TaskMessageDict(JsonStr("agent"), <<"reply">>)>>,
                    <<TaskMessageDict(JsonStr("user"), <<"hello">>),
                      TaskMessageDict(JsonStr("system"), <<"Error", "processing", "task">>)>>,
                    <<TaskMessageDict(JsonStr("agent"), <<"reply">>),
                      TaskMessageDict(JsonAbsent, <<"hello">>)>>}}

\* response.json().get("result", {}): only a failed call or an unreadable
\* body raises
ResultRaisesOnUnreadable(response) ==
    \/ response.kind = "raises"
    \/ response.json = "invalid"

\* response.json()["result"] and the lookups in it raise (lines 175-176, 198-199)
ResultRaises(response) ==
    \/ response.kind = "raises"
    \/ response.json \in {"invalid", "no_result", "result_null"}

\* lines 202-206: the last message, scanning from the end, whose role is
\* "agent"; msg["role"] raises on a message without a role
RECURSIVE LastAgentMessage(_, _)
LastAgentMessage(name, messages) ==
    IF messages = <<>>
    THEN Message(NoResponseText, JsonAbsent, <<>>, <<>>)
    ELSE LET msg == messages[Len(messages)]
         IN IF msg.role = JsonAbsent
            THEN Message(ErrorText, name, <<>>, <<>>)
            ELSE IF msg.role = JsonStr("agent")
            THEN Message(msg.content, JsonAbsent, <<>>, <<>>)
            ELSE LastAgentMessage(name, SubSeq(messages, 1, Len(messages) - 1))

\* a request posted to the orchestrator's own address
CallToSelf(url, method, section, task_id) ==
    [url |-> JsonStr("http://0.0.0.0:5000"), method |-> method, section |-> section,
     task_id |-> task_id]

\* one requests.post of the current handle_task
Call(url, method, section, task_id) ==
    [url |-> url, method |-> method, section |-> section, task_id |-> task_id]

\* results.insert(0, ...): the newest section goes first
EndDelegationPrepend(result, method, response) ==
    /\ oloc' = [oloc EXCEPT
                  !.results = <<[prefix |-> oloc.section, body |-> result]>> \o @,
                  !.create_response = NoPeerResponse,
                  !.task_id = JsonAbsent]
    /\ opc' = IF oloc.section = "Calculator" THEN "trans_match" ELSE "finish"
    /\ oret' = [NoReturn EXCEPT !.op = "_delegate_to_agent", !.ok = TRUE,
                                !.result = result, !.loc = oloc,
                                !.method = method, !.peer = response]

\* a failed delegation that ends _orchestrate_task
EndDelegationStopping(result, method, response) ==
    /\ oloc' = [oloc EXCEPT
                  !.results = Append(@, [prefix |-> oloc.section, body |-> result]),
                  !.create_response = NoPeerResponse,
                  !.task_id = JsonAbsent]
    /\ oret' = [NoReturn EXCEPT !.op = "_delegate_to_agent", !.ok = TRUE,
                                !.result = result, !.loc = oloc,
                                !.method = method, !.peer = response]
    /\ opc' = IF oloc.section = "Calculator"
                 /\ result.text \notin {FailedCreateText, FailedSendText, ErrorText}
              THEN "trans_match" ELSE "finish"

\* _delegate_to_agent has returned `result`: lines 139 and 146 append the
\* section, and _orchestrate_task goes on
EndDelegation(result, method, response) ==
    /\ oloc' = [oloc EXCEPT
                  !.results = Append(@, [prefix |-> oloc.section, body |-> result]),
                  !.create_response = NoPeerResponse,
                  !.task_id = JsonAbsent]
    /\ oret' = [NoReturn EXCEPT !.op = "_delegate_to_agent", !.ok = TRUE,
                                !.result = result, !.loc = oloc,
                                !.method = method, !.peer = response]
    /\ opc' = IF oloc.section = "Calculator" THEN "trans_match" ELSE "finish"

\* handle_task, lines 92-99
HandleTask(content) ==
    /\ opc = "idle"
    /\ oret = NoReturn
    /\ calls' = <<>>
    /\ LET lowered == {Lower(w) : w \in content}
       IN IF AnyIn(DiscoveryPhrases, lowered)
          THEN IF registered_agents = <<>>
               THEN /\ oret' = [NoReturn EXCEPT !.op = "handle_task", !.ok = TRUE,
                                               !.result = ListAgents(<<>>),
                                               !.loc = [NoOLocals EXCEPT
                                                          !.content = lowered,
                                                          !.known = Keys(registered_agents)]]
                    /\ UNCHANGED <<opc, oloc>>
               ELSE /\ opc' = "list_iter"
                    /\ oloc' = [NoOLocals EXCEPT !.content = lowered,
                                                 !.known = Keys(registered_agents)]
                    /\ oret' = NoReturn
          ELSE /\ opc' = "calc_match"
               /\ oloc' = [NoOLocals EXCEPT !.content = lowered, !.orchestrating = TRUE,
                                            !.known = Keys(registered_agents)]
               /\ oret' = NoReturn
    /\ UNCHANGED registered_agents
    /\ UNCHANGED <<avars, cvars, kvars>>

\* _list_agents, lines 110-112: len(self.registered_agents) for the text and
\* self.registered_agents.items(), whose iterator remembers the dict's size
ListIter ==
    /\ opc = "list_iter"
    /\ oret = NoReturn
    /\ opc' = "list_next"
    /\ oloc' = [oloc EXCEPT !.size = Len(registered_agents)]
    /\ UNCHANGED <<registered_agents, calls, oret>>
    /\ UNCHANGED <<avars, cvars, kvars>>

\* _list_agents, lines 112-120: the loop asks the iterator for the next item;
\* it raises RuntimeError if the dict has changed size since line 112, else
\* gives the item at its position as the dict has it now, or ends the loop
ListNext ==
    /\ opc = "list_next"
    /\ oret = NoReturn
    /\ IF Len(registered_agents) # oloc.size
       THEN /\ opc' = "idle"
            /\ oloc' = NoOLocals
            /\ oret' = [NoReturn EXCEPT !.op = "handle_task", !.raised = TRUE, !.loc = oloc]
       ELSE IF Len(oloc.seen) = oloc.size
       THEN /\ opc' = "idle"
            /\ oloc' = NoOLocals
            /\ oret' = [NoReturn EXCEPT !.op = "handle_task", !.ok = TRUE, !.loc = oloc,
                                        !.result = ListAgents(oloc.seen)]
       ELSE /\ opc' = "list_next"
            /\ oloc' = [oloc EXCEPT !.seen = Append(@, registered_agents[Len(@) + 1])]
            /\ oret' = NoReturn
    /\ UNCHANGED <<registered_agents, calls>>
    /\ UNCHANGED <<avars, cvars, kvars>>

\* a lookup by declared skill: the first registered card with a skill named
\* after a calculator keyword, whatever its name
CalcMatchBySkills ==
    LET skilled == {i \in 1..Len(registered_agents) :
                       \E k \in 1..Len(registered_agents[i].ref.skills) :
                           registered_agents[i].ref.skills[k].name \in CalculatorWords}
        first   == CHOOSE i \in skilled : \A j \in skilled : i <= j
    IN /\ opc = "calc_match"
       /\ oret = NoReturn
       /\ IF AnyIn(CalculatorWords, oloc.content) /\ skilled # {}
          THEN /\ opc' = "create"
               /\ oloc' = [oloc EXCEPT !.section = "Calculator",
                                       !.found = @ \cup {"Calculator"},
                                       !.agent_card = registered_agents[first].ref]
          ELSE /\ opc' = "trans_match"
               /\ oloc' = IF AnyIn(CalculatorWords, oloc.content)
                          THEN [oloc EXCEPT !.missed = @ \cup {"Calculator"}]
                          ELSE oloc
       /\ UNCHANGED <<registered_agents, calls, oret>>
       /\ UNCHANGED <<avars, cvars, kvars>>

\* _orchestrate_task, lines 135-138
CalcMatch ==
    /\ opc = "calc_match"
    /\ oret = NoReturn
    /\ IF AnyIn(CalculatorWords, oloc.content) /\ HasKey(registered_agents, CalculatorName)
       THEN /\ opc' = "create"
            /\ oloc' = [oloc EXCEPT !.section = "Calculator",
                                    !.found = @ \cup {"Calculator"},
                                    !.agent_card = Lookup(registered_agents, CalculatorName)]
       ELSE /\ opc' = "trans_match"
            /\ oloc' = IF AnyIn(CalculatorWords, oloc.content)
                       THEN [oloc EXCEPT !.missed = @ \cup {"Calculator"}]
                       ELSE oloc
    /\ UNCHANGED <<registered_agents, calls, oret>>
    /\ UNCHANGED <<avars, cvars, kvars>>

\* _orchestrate_task, lines 142-145
TransMatch ==
    /\ opc = "trans_match"
    /\ oret = NoReturn
    /\ IF AnyIn(TranslatorWords, oloc.content) /\ HasKey(registered_agents, TranslatorName)
       THEN /\ opc' = "create"
            /\ oloc' = [oloc EXCEPT !.section = "Translator",
                                    !.found = @ \cup {"Translator"},
                                    !.agent_card = Lookup(registered_agents, TranslatorName)]
       ELSE /\ opc' = "finish"
            /\ oloc' = IF AnyIn(TranslatorWords, oloc.content)
                       THEN [oloc EXCEPT !.missed = @ \cup {"Translator"}]
                       ELSE oloc
    /\ UNCHANGED <<registered_agents, calls, oret>>
    /\ UNCHANGED <<avars, cvars, kvars>>

\* a createTask that is posted again when the call raises
DelegateCreateRetrying ==
    /\ opc = "create"
    /\ oret = NoReturn
    /\ calls' = Append(calls, Call(oloc.agent_card.url, "createTask", oloc.section, JsonAbsent))
    /\ \E response \in CreateResponses :
         IF response.kind = "raises" /\ Len(calls) < 2
         THEN UNCHANGED <<opc, oloc, oret>>
         ELSE IF response.kind = "raises" \/ response.status # 200
                 \/ ResultRaises(response) \/ response.task_id = JsonAbsent
         THEN EndDelegation(Message(ErrorText, oloc.agent_card.name, <<>>, <<>>), "createTask", response)
         ELSE /\ opc' = "send"
              /\ oloc' = [oloc EXCEPT !.create_response = response,
                                      !.task_id = response.task_id]
              /\ oret' = NoReturn
    /\ UNCHANGED registered_agents
    /\ UNCHANGED <<avars, cvars, kvars>>

\* _delegate_to_agent, lines 163-176: createTask on the peer
DelegateCreate ==
    /\ opc = "create"
    /\ oret = NoReturn
    /\ calls' = Append(calls, Call(oloc.agent_card.url, "createTask", oloc.section, JsonAbsent))
    /\ \E response \in CreateResponses :
         IF response.kind = "raises"
         THEN EndDelegation(Message(ErrorText, oloc.agent_card.name, <<>>, <<>>), "createTask", response)
         ELSE IF response.status # 200
         THEN EndDelegation(Message(FailedCreateText, oloc.agent_card.name, <<>>, <<>>), "createTask", response)
         ELSE IF ResultRaises(response) \/ response.task_id = JsonAbsent
         THEN EndDelegation(Message(ErrorText, oloc.agent_card.name, <<>>, <<>>), "createTask", response)
         ELSE /\ opc' = "send"
              /\ oloc' = [oloc EXCEPT !.create_response = response,
                                      !.task_id = response.task_id]
              /\ oret' = NoReturn
    /\ UNCHANGED registered_agents
    /\ UNCHANGED <<avars, cvars, kvars>>

\* _delegate_to_agent, lines 179-209: sendTaskMessage on the peer and the
\* reply taken from the returned task
DelegateSend ==
    /\ opc = "send"
    /\ oret = NoReturn
    /\ calls' = Append(calls, Call(oloc.agent_card.url, "sendTaskMessage", oloc.section,
                                   oloc.task_id))
    /\ \E response \in SendResponses :
         IF response.kind = "raises"
         THEN EndDelegation(Message(ErrorText, oloc.agent_card.name, <<>>, <<>>), "sendTaskMessage", response)
         ELSE IF response.status # 200
         THEN EndDelegation(Message(FailedSendText, oloc.agent_card.name, <<>>, <<>>), "sendTaskMessage", response)
         ELSE IF ResultRaises(response)
         THEN EndDelegation(Message(ErrorText, oloc.agent_card.name, <<>>, <<>>), "sendTaskMessage", response)
         ELSE EndDelegation(LastAgentMessage(oloc.agent_card.name,
                                IF response.has_messages THEN response.messages ELSE <<>>),
                            "sendTaskMessage", response)
    /\ UNCHANGED registered_agents
    /\ UNCHANGED <<avars, cvars, kvars>>

\* _orchestrate_task, lines 148-151; ', '.join raises on a key that is not a str
Finish ==
    /\ opc = "finish"
    /\ oret = NoReturn
    /\ opc' = "idle"
    /\ oloc' = NoOLocals
    /\ oret' =
         IF oloc.results # <<>>
         THEN [NoReturn EXCEPT !.op = "handle_task", !.ok = TRUE, !.loc = oloc,
                               !.calls = calls,
                               !.result = Message(<<>>, JsonAbsent, <<>>, oloc.results)]
         ELSE IF \A i \in 1..Len(registered_agents) : IsStr(registered_agents[i].key)
         THEN [NoReturn EXCEPT !.op = "handle_task", !.ok = TRUE, !.loc = oloc,
                               !.calls = calls,
                               !.result = Message(NotSureText, JsonAbsent,
                                                  KeySeq(registered_agents), <<>>)]
         ELSE [NoReturn EXCEPT !.op = "handle_task", !.raised = TRUE, !.loc = oloc,
                               !.calls = calls]
    /\ UNCHANGED <<registered_agents, calls>>
    /\ UNCHANGED <<avars, cvars, kvars>>

\* BaseAgent._send_task_message, lines 195-212, around the orchestrator's
\* handle_task: what it returned becomes the agent's message of a completed
\* task, what it raised the system message of a failed one
OwnTaskOutcome(ret) ==
    IF ret.raised
    THEN [status |-> "failed", role |-> "system", content |-> NoResult]
    ELSE [status |-> "completed", role |-> "agent", content |-> ret.result]

\* =================================================================== codecs
\* an object of the data model, or a JSON body, with the class it belongs to
Typed(type, v) == [type |-> type, v |-> v]
NoValue == Typed("", None)
Raised  == Typed("raised", None)

Metadatas == {None, EmptyDict, SomeDict}
\* the objects the constructors of the dataclasses build: the constructors
\* check nothing; optional fields are None when they are not given
Requests ==
    {[method |-> "getTask", params |-> p, id |-> i, jsonrpc |-> "2.0"] :
        p \in Metadatas, i \in Ids}
Errors ==
    {[code |-> INTERNAL_ERROR, message |-> "Task not found", data |-> d] : d \in Metadatas}
Responses ==
    {JSONRPCResponse(i, r, e) :
        i \in Ids, r \in {None, SomeDict},
        e \in {None, JSONRPCError(INTERNAL_ERROR, "Task not found")}}
TaskMessages ==
    {TaskMessage(role, <<"hello">>, md, 0, 0) : role \in MessageRole, md \in Metadatas}
Tasks ==
    {[Task("t1", status, md, 0) EXCEPT !.messages = ms] :
        status \in {"pending", "cancelled"}, md \in Metadatas,
        ms \in {<<>>, <<TaskMessage("user", <<"hello">>, SomeDict, 0, 0)>>}}
ASkill == [name |-> "add", description |-> "d", parameters |-> EmptyDict,
           interaction_modes |-> <<"text">>]
AgentCards ==
    {[name |-> CalculatorName, description |-> JsonStr("d"),
      url |-> JsonStr("http://localhost:5001"), skills |-> sk, version |-> "1.0",
      supported_interaction_modes |-> <<"text">>, metadata |-> md] :
        sk \in {<<>>, <<ASkill>>}, md \in Metadatas}
Values ==
    {Typed("JSONRPCRequest", x) : x \in Requests}
    \cup {Typed("JSONRPCError", x) : x \in Errors}
    \cup {Typed("JSONRPCResponse", x) : x \in Responses}
    \cup {Typed("TaskMessage", x) : x \in TaskMessages}
    \cup {Typed("Task", x) : x \in Tasks}
    \cup {Typed("AgentCard", x) : x \in AgentCards}

\* bodies received from a peer, to be decoded as responses
WireError == [code |-> INTERNAL_ERROR, message |-> "Task not found"]
ReceivedBodies ==
    {Typed("JSONRPCResponse", e) :
        e \in {[jsonrpc |-> "2.0", id |-> NullId, result |-> SomeDict],
               [jsonrpc |-> "2.0", id |-> NullId, error |-> WireError],
               [jsonrpc |-> "2.0", id |-> NullId, error |-> WireError, result |-> SomeDict],
               [id |-> NullId, error |-> [message |-> "Task not found"]]}}

\* x.to_dict()
ToDict(x) ==
    CASE x.type = "JSONRPCRequest"  -> JSONRPCRequestToDict(x.v)
      [] x.type = "JSONRPCError"    -> JSONRPCErrorToDict(x.v)
      [] x.type = "JSONRPCResponse" -> JSONRPCResponseToDict(x.v)
      [] x.type = "TaskMessage"     -> TaskMessageToDict(x.v)
      [] x.type = "Task"            -> TaskToDict(x.v)
      [] x.type = "AgentCard"       -> AgentCardToDict(x.v)

\* cls.from_dict(data) may raise
Decodes(w) ==
    CASE w.type = "JSONRPCRequest"  -> RequestDecodes(w.v)
      [] w.type = "JSONRPCError"    -> ResponseDecodes([error |-> w.v])
      [] w.type = "JSONRPCResponse" -> ResponseDecodes(w.v)
      [] w.type = "TaskMessage"     -> TaskMessageDecodes(w.v)
      [] w.type = "Task"            -> TaskDecodes(w.v)
      [] w.type = "AgentCard"       -> CardDecodes(w.v)

\* cls.from_dict(data); JSONRPCError has no from_dict of its own, an error is
\* decoded by JSONRPCResponse.from_dict
FromDict(w) ==
    CASE w.type = "JSONRPCRequest"  -> JSONRPCRequestFromDict(w.v)
      [] w.type = "JSONRPCError"    -> JSONRPCResponseFromDict([error |-> w.v]).error
      [] w.type = "JSONRPCResponse" -> JSONRPCResponseFromDict(w.v)
      [] w.type = "TaskMessage"     -> TaskMessageFromDict(w.v)
      [] w.type = "Task"            -> TaskFromDict(w.v)
      [] w.type = "AgentCard"       -> AgentCardFromDict(w.v)

\* an object of the data model is constructed
Construct(x) ==
    /\ value' = x
    /\ wire' = NoValue
    /\ back' = NoValue
    /\ UNCHANGED <<avars, ovars, cvars>>

\* value.to_dict()
Encode ==
    /\ value # NoValue
    /\ wire = NoValue
    /\ wire' = Typed(value.type, ToDict(value))
    /\ UNCHANGED <<value, back>>
    /\ UNCHANGED <<avars, ovars, cvars>>

\* a body arrives from a peer
Receive(w) ==
    /\ value' = NoValue
    /\ wire' = w
    /\ back' = NoValue
    /\ UNCHANGED <<avars, ovars, cvars>>

\* cls.from_dict(wire)
Decode ==
    /\ wire # NoValue
    /\ back = NoValue
    /\ back' = IF Decodes(wire) THEN Typed(wire.type, FromDict(wire)) ELSE Raised
    /\ UNCHANGED <<value, wire>>
    /\ UNCHANGED <<avars, ovars, cvars>>

\* ===================================================================== client
\* what requests.post may give the client: an exception of requests
\* (connection refused, timeout), or a response with a status and a body that
\* is JSON or not
ClientResponse(kind, status, json, body) ==
    [kind |-> kind, status |-> status, json |-> json, body |-> body]
NoClientResponse == ClientResponse("", 0, "", None)

\* tasks as an agent returns them; the contents are word sequences
AgentReply(words, call) == TaskMessage("agent", words, None, 0, call)
UserMessage(call) == TaskMessage("user", <<"hello">>, None, 0, call)
SystemError(call) == TaskMessage("system", <<"Error", "processing", "task">>, None, 0, call)
TaskWith(task_id, status, messages) ==
    [Task(task_id, status, EmptyDict, 0) EXCEPT !.messages = messages]
ReturnedTasks ==
    {TaskToDict(TaskWith("p1", "pending", <<>>)),
     TaskToDict(TaskWith("p1", "completed", <<UserMessage(1), AgentReply(<<"reply">>, 1)>>)),
     TaskToDict(TaskWith("p1", "failed", <<UserMessage(1), SystemError(1)>>)),
     TaskToDict(TaskWith("p1", "completed",
        <<UserMessage(1), AgentReply(<<"reply">>, 1), UserMessage(2), AgentReply(<<"other">>, 2)>>)),
     TaskToDict(TaskWith("p1", "failed",
        <<UserMessage(1), AgentReply(<<"reply">>, 1), UserMessage(2), SystemError(2)>>))}
\* results that are not tasks of the data model: no task_id, a status or a role
\* outside the enumerations
MalformedTasks ==
    {[TaskToDict(TaskWith("p1", "pending", <<>>)) EXCEPT !.task_id = AbsentStr],
     [TaskToDict(TaskWith("p1", "pending", <<>>)) EXCEPT !.status = "bogus"],
     TaskToDict(TaskWith("p1", "completed",
        <<TaskMessage("bogus", <<"hello">>, None, 0, 1), AgentReply(<<"reply">>, 1)>>))}

RemoteError == [code |-> INTERNAL_ERROR, message |-> "Task not found"]
\* the JSON bodies: a result envelope, an error envelope, an envelope with
\* both keys or neither, an error without a code
Envelopes ==
    {[jsonrpc |-> "2.0", id |-> NullId, result |-> r] :
        r \in ReturnedTasks \cup MalformedTasks \cup {None}}
    \cup {[jsonrpc |-> "2.0", id |-> NullId, error |-> WireError],
          [jsonrpc |-> "2.0", id |-> NullId, error |-> RemoteError,
           result |-> TaskToDict(TaskWith("p1", "pending", <<>>))],
          [jsonrpc |-> "2.0", id |-> NullId],
          [jsonrpc |-> "2.0", id |-> NullId, error |-> [message |-> "Task not found"]]}
ClientResponses ==
    {ClientResponse("raises", 0, "", None),
     ClientResponse("http", 500, "dict", [jsonrpc |-> "2.0", id |-> NullId, error |-> WireError]),
     ClientResponse("http", 200, "invalid", None)}
    \cup {ClientResponse("http", 200, "dict", e) : e \in Envelopes}

\* an exception: its type, the prefix of its text, and the code and message of
\* the remote error its text carries
Failure(type, prefix, code, message) ==
    [type |-> type, prefix |-> prefix, code |-> code, message |-> message]
NoFailure == Failure("", "", 0, "")
Outcome(failure, result) == [failure |-> failure, result |-> result]

\* _call_method, lines 66-69: raise Exception(f"RPC Error {code}: {message}")
RpcError(error) == Failure("Exception", "RPC Error", error.code, error.message)

\* the envelope's result looked at before its error
CallOutcomesIgnoringError(response) ==
    IF response.kind = "raises" \/ response.status \notin 200..299 \/ response.json = "invalid"
    THEN {Outcome(Failure("Exception", "Request failed", 0, ""), None)}
    ELSE IF ~ResponseDecodes(response.body)
    THEN {Outcome(Failure("KeyError", "", 0, ""), None)}
    ELSE LET rpc_response == JSONRPCResponseFromDict(response.body)
         IN IF rpc_response.result = None /\ rpc_response.error # None
            THEN {Outcome(RpcError(rpc_response.error), None)}
            ELSE {Outcome(NoFailure, rpc_response.result)}

\* _call_method, lines 55-74, after the request is posted: what it returns or
\* raises. response.json() on a body that is not JSON raises an exception
\* that, depending on the version of requests, is a RequestException or a
\* ValueError.
CallOutcomes(response) ==
    IF response.kind = "raises" \/ response.status \notin 200..299
    THEN {Outcome(Failure("Exception", "Request failed", 0, ""), None)}
    ELSE IF response.json = "invalid"
    THEN {Outcome(Failure("Exception", "Request failed", 0, ""), None),
          Outcome(Failure("ValueError", "", 0, ""), None)}
    ELSE IF ~ResponseDecodes(response.body)
    THEN {Outcome(Failure("KeyError", "", 0, ""), None)}
    ELSE LET rpc_response == JSONRPCResponseFromDict(response.body)
         IN IF rpc_response.error # None
            THEN {Outcome(RpcError(rpc_response.error), None)}
            ELSE {Outcome(NoFailure, rpc_response.result)}

\* one request posted by the client: the method, the task_id in its params and
\* the id of the request
ClientCall(method, task_id, id) == [method |-> method, task_id |-> task_id, id |-> id]

\* locals of chat: task_id; history fields: `given`, the task_id chat was
\* called with, and `created`, the task_id of the task create_task returned
NoChatLocals == [task_id |-> AbsentStr, given |-> AbsentStr, created |-> AbsentStr]
\* what an operation raised or returned (`result` for _call_method, `reply`
\* for chat), with history fields: the response that ended it and the requests
\* it posted
NoClientReturn ==
    [op |-> "", failure |-> NoFailure, result |-> None, reply |-> <<>>,
     response |-> NoClientResponse, loc |-> NoChatLocals, calls |-> <<>>]

\* chat, lines 173-177, scanning from the first message
FirstAgentMessage(messages) ==
    IF \E i \in 1..Len(messages) : messages[i].role = "agent"
    THEN messages[CHOOSE i \in 1..Len(messages) :
                    /\ messages[i].role = "agent"
                    /\ \A j \in 1..(i - 1) : messages[j].role # "agent"].content
    ELSE NoResponseText

\* chat, lines 173-177: the content of the last message, scanning from the
\* end, whose role is MessageRole.AGENT
RECURSIVE ChatLastAgentMessage(_)
ChatLastAgentMessage(messages) ==
    IF messages = <<>>
    THEN NoResponseText
    ELSE IF messages[Len(messages)].role = "agent"
    THEN messages[Len(messages)].content
    ELSE ChatLastAgentMessage(SubSeq(messages, 1, Len(messages) - 1))

\* a result of createTask or sendTaskMessage handed to Task.from_dict: a
\* result that is None has no get
ResultDecodes(result) == result # None /\ TaskDecodes(result)

\* _call_method(method, params) called on its own, or through get_task
CallMethod(method) ==
    /\ cpc = "idle"
    /\ cret = NoClientReturn
    /\ request_id < MaxRequestId
    /\ request_id' = request_id + 1
    /\ ccalls' = <<ClientCall(method, AbsentStr, request_id + 1)>>
    /\ \E response \in ClientResponses : \E outcome \in CallOutcomes(response) :
         cret' = [NoClientReturn EXCEPT
                    !.op = "_call_method", !.failure = outcome.failure,
                    !.result = outcome.result, !.response = response,
                    !.calls = ccalls']
    /\ UNCHANGED <<cpc, cloc>>
    /\ UNCHANGED <<avars, ovars, kvars>>

\* a chat that creates a task whatever task_id it is given
ChatAlwaysCreates(task_id) ==
    /\ cpc = "idle"
    /\ cret = NoClientReturn
    /\ request_id + 1 < MaxRequestId
    /\ cpc' = "chat_create"
    /\ cloc' = [NoChatLocals EXCEPT !.task_id = task_id, !.given = task_id]
    /\ ccalls' = <<>>
    /\ UNCHANGED <<request_id, cret>>
    /\ UNCHANGED <<avars, ovars, kvars>>

\* chat(message, task_id), lines 165-167: if not task_id
Chat(task_id) ==
    /\ cpc = "idle"
    /\ cret = NoClientReturn
    /\ request_id + 1 < MaxRequestId
    /\ cpc' = IF task_id = AbsentStr \/ task_id = "" THEN "chat_create" ELSE "chat_send"
    /\ cloc' = [NoChatLocals EXCEPT !.task_id = task_id, !.given = task_id]
    /\ ccalls' = <<>>
    /\ UNCHANGED <<request_id, cret>>
    /\ UNCHANGED <<avars, ovars, kvars>>

\* chat has raised `failure`
ChatRaises(failure, response) ==
    /\ cpc' = "idle"
    /\ cloc' = NoChatLocals
    /\ cret' = [NoClientReturn EXCEPT !.op = "chat", !.failure = failure,
                                      !.response = response, !.loc = cloc,
                                      !.calls = ccalls']

\* chat, lines 166-167: task = self.create_task(); task_id = task.task_id
ChatCreate ==
    /\ cpc = "chat_create"
    /\ cret = NoClientReturn
    /\ request_id' = request_id + 1
    /\ ccalls' = Append(ccalls, ClientCall("createTask", AbsentStr, request_id + 1))
    /\ \E response \in ClientResponses : \E outcome \in CallOutcomes(response) :
         IF outcome.failure # NoFailure
         THEN ChatRaises(outcome.failure, response)
         ELSE IF ~ResultDecodes(outcome.result)
         THEN ChatRaises(Failure("from_dict", "", 0, ""), response)
         ELSE /\ cpc' = "chat_send"
              /\ cloc' = [cloc EXCEPT !.task_id = TaskFromDict(outcome.result).task_id,
                                      !.created = outcome.result.task_id]
              /\ cret' = NoClientReturn
    /\ UNCHANGED <<avars, ovars, kvars>>

\* chat, lines 170-177: updated_task = self.send_message(task_id, message),
\* and the last agent message of updated_task
ChatSend ==
    /\ cpc = "chat_send"
    /\ cret = NoClientReturn
    /\ request_id' = request_id + 1
    /\ ccalls' = Append(ccalls, ClientCall("sendTaskMessage", cloc.task_id, request_id + 1))
    /\ \E response \in ClientResponses : \E outcome \in CallOutcomes(response) :
         IF outcome.failure # NoFailure
         THEN ChatRaises(outcome.failure, response)
         ELSE IF ~ResultDecodes(outcome.result)
         THEN ChatRaises(Failure("from_dict", "", 0, ""), response)
         ELSE /\ cpc' = "idle"
              /\ cloc' = NoChatLocals
              /\ cret' = [NoClientReturn EXCEPT
                            !.op = "chat",
                            !.reply = ChatLastAgentMessage(TaskFromDict(outcome.result).messages),
                            !.response = response, !.loc = cloc, !.calls = ccalls']
    /\ UNCHANGED <<avars, ovars, kvars>>

\* the caller has the returned value or the exception
ClientObserve ==
    /\ cret # NoClientReturn
    /\ cret' = NoClientReturn
    /\ UNCHANGED <<request_id, cpc, cloc, ccalls>>
    /\ UNCHANGED <<avars, ovars, kvars>>

\* A2AClient.__init__
ClientInit ==
    /\ request_id = 0
    /\ cpc = "idle"
    /\ cloc = NoChatLocals
    /\ ccalls = <<>>
    /\ cret = NoClientReturn

\* OrchestratorAgent.__init__
OrchestratorInit ==
    /\ registered_agents = <<>>
    /\ opc = "idle"
    /\ oloc = NoOLocals
    /\ calls = <<>>
    /\ oret = NoReturn

\* BaseAgent.__init__
Init ==
    /\ tasks = <<>>
    /\ heap = <<>>
    /\ methods = StandardMethods
    /\ clock = 0
    /\ sent = 0
    /\ pc = [t \in Threads |-> "idle"]
    /\ req = [t \in Threads |-> NoRequest]
    /\ loc = [t \in Threads |-> NoLocals]
    /\ out = NoOutput
    /\ OrchestratorInit
    /\ ClientInit
    /\ value = NoValue
    /\ wire = NoValue
    /\ back = NoValue

\* the agent serving concurrent clients
Next ==
    \/ \E t \in Threads : HandleJsonrpc(t, ClientBodies)
    \/ \E t \in Threads : CreateReturn(t)
    \/ \E t \in Threads : SendAddMessage(t)
    \/ \E t \in Threads : SendInProgress(t)
    \/ \E t \in Threads : SendHandle(t)
    \/ \E t \in Threads : SendCompleted(t)
    \/ \E t \in Threads : SendAddError(t)
    \/ \E t \in Threads : SendReturn(t)
    \/ Deliver

Spec == Init /\ [][Next]_vars

\* the agent serving one request at a time, with every kind of request and
\* with methods registered while it runs
NextSerial ==
    \/ HandleJsonrpc(1, AllBodies)
    \/ CreateReturn(1)
    \/ SendAddMessage(1)
    \/ SendInProgress(1)
    \/ SendHandle(1)
    \/ SendCompleted(1)
    \/ SendAddError(1)
    \/ SendReturn(1)
    \/ Deliver
    \/ RegisterMethod

Serial == Init /\ [][NextSerial]_vars

\* two clients served at once: between them they create two tasks, under an
\* id of their choosing or a generated one, and each sends messages to a task
\* of its own, client t to the t-th task of the store
PairBodies(t) ==
    {b \in ClientBodies :
        /\ b.method \in {"createTask", "sendTaskMessage"}
        /\ b.params # AbsentVal
        /\ b.params.role = AbsentStr
        /\ b.params.task_id # ""
        /\ b.method = "createTask" => Len(heap) < 2
        /\ b.method = "sendTaskMessage" =>
              /\ b.params.content # AbsentStr
              /\ t <= Len(tasks)
              /\ b.params.task_id = tasks[t].key}

NextPair ==
    \/ \E t \in Threads : HandleJsonrpcUpTo(t, PairBodies(t), MaxPairCalls)
    \/ \E t \in Threads : CreateReturn(t)
    \/ \E t \in Threads : SendAddMessage(t)
    \/ \E t \in Threads : SendInProgress(t)
    \/ \E t \in Threads : SendHandle(t)
    \/ \E t \in Threads : SendCompleted(t)
    \/ \E t \in Threads : SendAddError(t)
    \/ \E t \in Threads : SendReturn(t)
    \/ Deliver

Pair == Init /\ [][NextPair]_vars

\* a caller of the client: single calls and chats, one after the other
\* chat(message), chat(message, "") and chat(message, "t1")
ChatTaskIds == {AbsentStr, "", "t1"}
NextClient ==
    \/ \E method \in {"getTask", "listTasks"} : CallMethod(method)
    \/ \E task_id \in ChatTaskIds : Chat(task_id)
    \/ ChatCreate
    \/ ChatSend
    \/ ClientObserve

Client == Init /\ [][NextClient]_vars

\* objects of the data model encoded and decoded
NextCodec ==
    \/ \E x \in Values : Construct(x)
    \/ Encode
    \/ \E w \in ReceivedBodies : Receive(w)
    \/ Decode

Codec == Init /\ [][NextCodec]_vars

\* the orchestrator: register_agent called while handle_task runs
NextOrchestrator ==
    \/ RegisterAgent
    \/ \E content \in Contents : HandleTask(content)
    \/ ListIter
    \/ ListNext
    \/ CalcMatch
    \/ TransMatch
    \/ DelegateCreate
    \/ DelegateSend
    \/ Finish
    \/ Observe

Orchestrator == Init /\ [][NextOrchestrator]_vars

\* every requests.post is made with timeout=5, so each call returns or
\* raises, and the thread of handle_task is scheduled again and again: a
\* statement of it that can run time and again does run (a register_agent on
\* another thread holds it up only until its caller has the returned value)
HandleTaskStep ==
    \/ ListIter
    \/ ListNext
    \/ CalcMatch
    \/ TransMatch
    \/ DelegateCreate
    \/ DelegateSend
    \/ Finish
OrchestratorFair ==
    /\ Orchestrator
    /\ SF_vars(HandleTaskStep)
    /\ WF_vars(Observe)

\* ================================================================== claims
\* vocabulary of the claims: a response to a given method, and what it carries
Answered(method) == out # NoOutput /\ out.req.method = method
HasResult == "result" \in DOMAIN out.body
HasError  == "error" \in DOMAIN out.body
ParamsOf(r) == ParamsOrEmpty(r.params)
IsPrefix(s1, s2) == Len(s1) <= Len(s2) /\ \A i \in 1..Len(s1) : s1[i] = s2[i]

\* params naming a task of the store, with content and a valid (or defaulted)
\* role
ValidSendParams(r) ==
    /\ ParamsOf(r).task_id # AbsentStr
    /\ HasKey(tasks, ParamsOf(r).task_id)
    /\ ParamsOf(r).content # AbsentStr
    /\ ParamsOf(r).role \in MessageRole \cup {AbsentStr}

\* C1: when a sendTaskMessage call with valid params returns, the returned
\* task is completed or failed and its message list is longer by exactly two
\* than when the call looked the task up: the inbound message followed by one
\* outcome message of the same call.
C1_SendSettlesWithTwoMessages ==
    (Answered("sendTaskMessage") /\ ValidSendParams(out.req)) =>
        /\ HasResult
        /\ out.body.result.status \in {"completed", "failed"}
        /\ Len(out.body.result.messages) = out.loc.before + 2
        /\ out.body.result.messages[out.loc.before + 1] = TaskMessageToDict(out.loc.message)
        /\ out.body.result.messages[out.loc.before + 2].call = out.loc.message.call
        /\ out.body.result.messages[out.loc.before + 2].role \in {"agent", "system"}

\* the request a step of thread t takes up: answered at once (in out') or
\* left in flight (in req')
TakesUp(t) == pc[t] = "idle" /\ (pc'[t] # "idle" \/ (out' # NoOutput /\ out'.thread = t))
TakenUp(t) == IF pc'[t] # "idle" THEN req'[t] ELSE out'.req

\* C2: a sendTaskMessage whose task_id is not a key of the task store is
\* answered, in the step that takes it up, with an error envelope, and that
\* step leaves the task store (keys, tasks, messages, statuses, timestamps)
\* as it was.
C2_UnknownTaskSendRejected ==
    [][\A t \in Threads :
        (/\ TakesUp(t)
         /\ TakenUp(t).method = "sendTaskMessage"
         /\ ~HasKey(tasks, ParamsOf(TakenUp(t)).task_id))
        => (/\ pc'[t] = "idle"
            /\ "error" \in DOMAIN out'.body
            /\ "result" \notin DOMAIN out'.body
            /\ tasks' = tasks
            /\ heap' = heap)]_vars

\* a send naming a non-empty id that the non-empty store does not hold was
\* answered with an error
C2_Witness ==
    /\ Answered("sendTaskMessage")
    /\ ParamsOf(out.req).task_id = "t1"
    /\ ParamsOf(out.req).content = "c1"
    /\ ~HasKey(tasks, "t1")
    /\ Len(tasks) > 0
    /\ HasError

\* C3: every response that leaves the server, whatever the request, the
\* method and the handler's outcome, carries exactly one of the keys result
\* and error.
C3_ResultXorError ==
    out # NoOutput => (HasResult /\ ~HasError) \/ (HasError /\ ~HasResult)

\* a registered extra method returned None: the envelope carries result: null
C3_Witness ==
    /\ Answered("custom")
    /\ out.handler = "returned"
    /\ HasResult
    /\ out.body.result = None

\* a sendTaskMessage call that has looked its task up and not yet returned
SendInFlight(t) ==
    pc[t] \in {"send_add_message", "send_in_progress", "send_handle",
               "send_completed", "send_add_error", "send_return"}

\* C4: sendTaskMessage calls on the same task are mutually exclusive: no two
\* of them are in flight on one task at once, and in every task's history the
\* two messages of one call (inbound, then outcome) are adjacent.
C4_SameTaskSendsExcluded ==
    /\ \A t, u \in Threads :
         (t # u /\ SendInFlight(t) /\ SendInFlight(u)) => loc[t].task # loc[u].task
    /\ \A k \in 1..Len(heap) : \A i, j \in 1..Len(heap[k].messages) :
         (i < j /\ heap[k].messages[i].call = heap[k].messages[j].call) => j = i + 1

\* C5: across every step, each task id in the store stays in the store and
\* the message history stored under it before the step is a prefix of the
\* history stored under it after the step.
C5_TasksKeptHistoriesGrow ==
    [][\A k \in Keys(tasks) :
         /\ HasKey(tasks', k)
         /\ IsPrefix(heap[Lookup(tasks, k)].messages, heap'[Lookup(tasks', k)].messages)]_vars

\* C6: when handle_task raised during a sendTaskMessage on an existing task,
\* the response carries a result, the returned task has status failed, and the
\* call appended exactly one system-role error message, after its inbound
\* message.
C6_DomainFailureCaptured ==
    (Answered("sendTaskMessage") /\ out.loc.outcome = "raised") =>
        /\ HasResult
        /\ out.body.result.status = "failed"
        /\ LET ms   == out.body.result.messages
               errs == {j \in 1..Len(ms) :
                          /\ ms[j].call = out.loc.message.call
                          /\ ms[j].role = "system"
                          /\ ms[j].content = "Error processing task"}
               inb  == {i \in 1..Len(ms) : ms[i] = TaskMessageToDict(out.loc.message)}
           IN /\ Cardinality(errs) = 1
              /\ \A j \in errs : \E i \in inb : i < j

\* C7: every createTask call returns a task whose status is pending and whose
\* message list is empty, stored under the task_id it returns.
C7_CreatedTaskPendingAndEmpty ==
    Answered("createTask") =>
        /\ HasResult
        /\ out.body.result.status = "pending"
        /\ Len(out.body.result.messages) = 0
        /\ HasKey(tasks, out.body.result.task_id)

\* C8: every request handed to the dispatcher gets one response: the step
\* that ends a request sends a response to that request, a request in flight
\* is not changed, and the response's id is the request's id, be it a string,
\* an integer or null.
C8_OneResponseWithRequestId ==
    [][\A t \in Threads :
         /\ (out' # NoOutput /\ out'.thread = t /\ out'.req # NoRequest) =>
               /\ out'.body.id = out'.req.id
               /\ pc'[t] = "idle"
               /\ (pc[t] = "idle" \/ out'.req = req[t])
         /\ pc[t] # "idle" =>
               IF pc'[t] = "idle"
               THEN out' # NoOutput /\ out'.thread = t /\ out'.req = req[t]
               ELSE req'[t] = req[t] /\ out' = NoOutput]_vars

\* a createTask request with id null was answered, with id null
C8_Witness ==
    /\ Answered("createTask")
    /\ out.req.id = NullId
    /\ HasResult
    /\ out.body.id = NullId

\* C9: a request whose method is not in self.methods is answered, in the
\* step that takes it up, with error code METHOD_NOT_FOUND; no handler ran
\* and the task store is as it was.
C9_UnknownMethodRejected ==
    [][\A t \in Threads :
         (TakesUp(t) /\ TakenUp(t) # NoRequest /\ TakenUp(t).method \notin methods)
         => (/\ pc'[t] = "idle"
             /\ "error" \in DOMAIN out'.body
             /\ out'.body.error.code = METHOD_NOT_FOUND
             /\ out'.body.id = out'.req.id
             /\ out'.handler = ""
             /\ tasks' = tasks
             /\ heap' = heap)]_vars

\* an unregistered method was refused while the store holds a task
C9_Witness ==
    /\ Answered("custom")
    /\ "custom" \notin methods
    /\ HasError
    /\ out.body.error.code = METHOD_NOT_FOUND
    /\ Len(tasks) > 0

\* a well-formed request that needs no task
AgentCardRequest ==
    [method |-> "getAgentCard", params |-> AbsentVal, id |-> [t |-> "int", v |-> "1"]]

\* C10: when a registered handler raised, the response is a 200 envelope with
\* error code INTERNAL_ERROR and the request's id (the exception did not reach
\* the route), the thread is free again, and a free thread can always take up
\* the next request.
C10_HandlerFailureContained ==
    /\ (out # NoOutput /\ out.handler = "raised") =>
          /\ out.status = 200
          /\ HasError /\ ~HasResult
          /\ out.body.error.code = INTERNAL_ERROR
          /\ out.body.id = out.req.id
          /\ pc[out.thread] = "idle"
          /\ ENABLED Deliver
    /\ \A t \in Threads :
          (out = NoOutput /\ pc[t] = "idle") => ENABLED HandleJsonrpc(t, {AgentCardRequest})

\* a handler registered at run time raised and the error envelope was sent
C10_Witness ==
    /\ Answered("custom")
    /\ "custom" \in methods
    /\ out.handler = "raised"
    /\ HasError
    /\ Len(tasks) > 0

\* C11 as claimed: when a registered handler raised, the error of the
\* response has a data field that holds the exception's message.
C11_ExceptionMessageInData ==
    (out # NoOutput /\ out.handler = "raised") =>
        /\ HasError
        /\ "data" \in DOMAIN out.body.error
        /\ out.body.error.data = out.exc

\* C11 as amended: when a registered handler raised, the response has error
\* code INTERNAL_ERROR, the error's message field is str(e) of the exception,
\* and the error has no data field.
C11_ExceptionMessageInMessage ==
    (out # NoOutput /\ out.handler = "raised") =>
        /\ HasError
        /\ out.body.error.code = INTERNAL_ERROR
        /\ out.body.error.message = out.exc
        /\ "data" \notin DOMAIN out.body.error

\* a handler registered at run time raised and its text is the error's message
C11_Witness ==
    /\ out # NoOutput
    /\ out.handler = "raised"
    /\ out.exc = "custom failure"
    /\ HasError
    /\ out.body.error.message = "custom failure"

\* the body the route could not decode: a non-empty dict without "method"
MethodMissing ==
    /\ out # NoOutput
    /\ out.rejected # None
    /\ out.rejected # EmptyBody
    /\ out.rejected.method = AbsentStr

\* C12: a body whose method field is missing is answered with an error
\* envelope of code INVALID_REQUEST or PARSE_ERROR, and the thread is free for
\* the next request.
C12_MissingMethodIsInvalidRequest ==
    MethodMissing =>
        /\ HasError
        /\ out.body.error.code \in {INVALID_REQUEST, PARSE_ERROR}
        /\ pc[out.thread] = "idle"

\* C13: an error envelope built by the route itself (empty body, body that
\* does not decode) carries the id of the body when the body has one, and null
\* only when it has none.
C13_RejectionCarriesReadableId ==
    (out # NoOutput /\ out.rejected # None) =>
        /\ HasError
        /\ out.body.id = IF out.rejected.id = AbsentId THEN NullId ELSE out.rejected.id

\* vocabulary of the orchestrator's claims
Registered(op) == oret # NoReturn /\ oret.op = op
\* register_agent got status 200 and a result that is a card of the data model
GoodCardResponse(response) ==
    /\ response.kind = "http"
    /\ response.status = 200
    /\ response.json = "result"
    /\ CardDecodes(response.card)
    /\ WellFormedCard(response.card)
\* _orchestrate_task has returned or raised
Orchestrated == Registered("handle_task") /\ oret.loc.orchestrating
MatchesCalculator == AnyIn(CalculatorWords, oret.loc.content)
MatchesTranslator == AnyIn(TranslatorWords, oret.loc.content)
CallsOf(section, method) ==
    {i \in 1..Len(oret.calls) :
        oret.calls[i].section = section /\ oret.calls[i].method = method}

\* C14: whenever the getAgentCard call raises, answers with a status other
\* than 200 or answers without a well-formed card as its result,
\* register_agent returns False without raising and the registry is as before.
C14_FailedRegisterLeavesRegistry ==
    [][(oret' # NoReturn /\ oret'.op = "register_agent"
            /\ ~GoodCardResponse(oret'.response))
       => (/\ ~oret'.ok
           /\ ~oret'.raised
           /\ registered_agents' = registered_agents)]_vars

\* C15: no step removes a name from the registry; a register_agent that
\* succeeds returns True and leaves its card under its name, every other name
\* keeping its card; any other step leaves the registry as it is. So each name
\* maps to the card of the latest successful registration of that name.
C15_RegistryLastWriteWins ==
    [][/\ \A k \in Keys(registered_agents) : HasKey(registered_agents', k)
       /\ IF oret' # NoReturn /\ oret'.op = "register_agent"
               /\ RegisterStores(oret'.response)
          THEN /\ oret'.ok
               /\ HasKey(registered_agents', oret'.response.card.name)
               /\ Lookup(registered_agents', oret'.response.card.name)
                     = AgentCardFromDict(oret'.response.card)
               /\ \A k \in Keys(registered_agents') \ {oret'.response.card.name} :
                     /\ HasKey(registered_agents, k)
                     /\ Lookup(registered_agents', k) = Lookup(registered_agents, k)
          ELSE registered_agents' = registered_agents]_vars

\* CalculatorAgent, registered before TranslatorAgent, was registered again
\* with the card of another URL, which replaced the first
C15_Witness ==
    /\ Registered("register_agent")
    /\ oret.ok
    /\ oret.response.card.name = CalculatorName
    /\ oret.response.card.url = JsonStr("http://localhost:5002")
    /\ Len(registered_agents) = 2
    /\ registered_agents[1].key = CalculatorName
    /\ registered_agents[1].ref.url = JsonStr("http://localhost:5002")
    /\ registered_agents[2].key = TranslatorName

\* C16: when no keyword set matched the content, or the agent of a matched
\* set was not registered, what _orchestrate_task returns is the not-sure
\* message with the names now registered, and it posted nothing for a section
\* whose agent was not registered.
C16_NotSureWhenUnmatchedOrUnregistered ==
    (Orchestrated /\ ~oret.raised
        /\ (oret.loc.missed # {} \/ (~MatchesCalculator /\ ~MatchesTranslator))) =>
        /\ oret.result.text = NotSureText
        /\ oret.result.names = KeySeq(registered_agents)
        /\ \A i \in 1..Len(oret.calls) : oret.calls[i].section \notin oret.loc.missed

\* C17: when the content matches both keyword sets and CalculatorAgent and
\* TranslatorAgent were registered when handle_task was entered, both are
\* delegated to, every request to the calculator precedes every request to the
\* translator, and the result is the Calculator section followed by the
\* Translator section.
C17_CalculatorBeforeTranslator ==
    (Orchestrated /\ MatchesCalculator /\ MatchesTranslator
        /\ {CalculatorName, TranslatorName} \subseteq oret.loc.known) =>
        /\ ~oret.raised
        /\ Cardinality(CallsOf("Calculator", "createTask")) = 1
        /\ Cardinality(CallsOf("Translator", "createTask")) = 1
        /\ \A i, j \in 1..Len(oret.calls) :
              (oret.calls[i].section = "Calculator" /\ oret.calls[j].section = "Translator")
              => i < j
        /\ Len(oret.result.parts) = 2
        /\ oret.result.parts[1].prefix = "Calculator"
        /\ oret.result.parts[2].prefix = "Translator"

\* both delegations went through: four requests, two sections
C17_Witness ==
    /\ Orchestrated
    /\ MatchesCalculator /\ MatchesTranslator
    /\ {CalculatorName, TranslatorName} \subseteq oret.loc.known
    /\ Len(oret.calls) = 4
    /\ Len(oret.result.parts) = 2
    /\ oret.result.parts[1].body.text = <<"reply">>

\* C18: when the content matches the arithmetic keywords only and
\* CalculatorAgent was registered when handle_task was entered, there is one
\* delegation: one createTask and at most one sendTaskMessage, each posted to
\* the url of a card registered as CalculatorAgent, and the result is one
\* section, prefixed Calculator.
C18_OneDelegationToCalculator ==
    (Orchestrated /\ MatchesCalculator /\ ~MatchesTranslator
        /\ CalculatorName \in oret.loc.known) =>
        /\ ~oret.raised
        /\ Cardinality(CallsOf("Calculator", "createTask")) = 1
        /\ Cardinality(CallsOf("Calculator", "sendTaskMessage")) <= 1
        /\ \A i \in 1..Len(oret.calls) :
              /\ oret.calls[i].section = "Calculator"
              /\ oret.calls[i].url = oret.loc.agent_card.url
              /\ oret.calls[i].url \in
                    {JsonStr(u) : u \in PeerUrls}
        /\ oret.loc.agent_card.name = CalculatorName
        /\ Len(oret.result.parts) = 1
        /\ oret.result.parts[1].prefix = "Calculator"

\* the calculator was asked and its reply is the Calculator section
C18_Witness ==
    /\ Orchestrated
    /\ MatchesCalculator /\ ~MatchesTranslator
    /\ CalculatorName \in oret.loc.known
    /\ Len(oret.calls) = 2
    /\ oret.calls[2].method = "sendTaskMessage"
    /\ oret.calls[2].task_id = JsonStr("p1")
    /\ oret.result.parts[1].body.text = <<"reply">>

\* C19: handle_task on a content with a discovery phrase (in any case), the
\* registry being empty, returns the no-agents message, whose words lowered
\* contain "no agents", and posts no request.
C19_DiscoveryOnEmptyRegistry ==
    (Registered("handle_task") /\ AnyIn(DiscoveryPhrases, oret.loc.content)
        /\ registered_agents = <<>>) =>
        /\ ~oret.raised
        /\ oret.result.text = NoAgentsText
        /\ \E i \in 1..(Len(oret.result.text) - 1) :
              Lower(oret.result.text[i]) = "no" /\ Lower(oret.result.text[i + 1]) = "agents"
        /\ calls = <<>>
        /\ opc = "idle"

\* "what agents" with an arithmetic keyword, nothing registered
C19_Witness ==
    /\ Registered("handle_task")
    /\ oret.loc.content = {"what agents", "calculate"}
    /\ registered_agents = <<>>
    /\ oret.result.text = NoAgentsText

\* a delegation ended on one of the failures: the call raised (connection,
\* timeout), a status other than 200, a body without a result, a createTask
\* result without task_id, a sendTaskMessage result without messages
DelegationFailed ==
    /\ Registered("_delegate_to_agent")
    /\ \/ oret.peer.kind = "raises"
       \/ oret.peer.status # 200
       \/ oret.peer.json # "result"
       \/ oret.method = "createTask" /\ oret.peer.task_id = JsonAbsent
       \/ oret.method = "sendTaskMessage" /\ ~oret.peer.has_messages
LacksMessages ==
    /\ oret.peer.kind = "http" /\ oret.peer.status = 200 /\ oret.peer.json = "result"
    /\ oret.method = "sendTaskMessage" /\ ~oret.peer.has_messages

\* C20 as claimed: on each of the failures _delegate_to_agent returns, without
\* raising, a string that names the target agent.
C20_FailureNamesTarget ==
    DelegationFailed =>
        /\ ~oret.raised
        /\ oret.result.text \in {FailedCreateText, FailedSendText, ErrorText}
        /\ oret.result.agent = oret.loc.agent_card.name

\* C20 as amended: on each of the failures _delegate_to_agent returns without
\* raising; the string names the target agent, except for a sendTaskMessage
\* result without messages, where it is the literal "No response from agent".
C20_FailureNamesTargetUnlessNoMessages ==
    DelegationFailed =>
        /\ ~oret.raised
        /\ IF LacksMessages
           THEN oret.result.text = NoResponseText /\ oret.result.agent = JsonAbsent
           ELSE /\ oret.result.text \in {FailedCreateText, FailedSendText, ErrorText}
                /\ oret.result.agent = oret.loc.agent_card.name

\* the peer answered sendTaskMessage with an error envelope
C20_Witness ==
    /\ DelegationFailed
    /\ oret.method = "sendTaskMessage"
    /\ oret.peer.status = 200
    /\ oret.peer.json = "no_result"
    /\ oret.result.text = ErrorText
    /\ oret.result.agent = TranslatorName

\* a sendTaskMessage call of thread t is in flight on the task object k
SendingOn(t, k) == SendInFlight(t) /\ loc[t].task = k

\* C26: sendTaskMessage calls in flight at once on different tasks do not
\* touch each other's task: every step that changes a task object is a step
\* of the call in flight on that task, and each call returns its task
\* completed or failed, as its own handler outcome decides, with exactly its
\* own inbound message and its own outcome message appended.
C26_DifferentTaskSendsIndependent ==
    /\ [][\A k \in 1..Len(heap) :
            heap'[k] # heap[k] => \E t \in Threads : SendingOn(t, k) /\ pc'[t] # pc[t]]_vars
    /\ [](LET ms == out.body.result.messages
               b  == out.loc.before
           IN (Answered("sendTaskMessage") /\ out.loc.task # 0)
              => (/\ HasResult
                  /\ out.body.result = TaskToDict(heap[out.loc.task])
                  /\ out.body.result.status \in {"completed", "failed"}
                  /\ out.body.result.status = "completed" <=> out.loc.outcome = "returned"
                  /\ Len(ms) = b + 2
                  /\ ms[b + 1] = TaskMessageToDict(out.loc.message)
                  /\ ms[b + 2].call = out.loc.message.call
                  /\ ms[b + 2].role = IF out.loc.outcome = "returned" THEN "agent" ELSE "system"))

\* one call returns its task failed, with its two messages, while the call of
\* the other thread is in flight on another task, its inbound message appended
C26_Witness ==
    /\ Answered("sendTaskMessage")
    /\ HasResult
    /\ out.body.result.status = "failed"
    /\ Len(out.body.result.messages) = 2
    /\ \E u \in Threads :
          /\ SendInFlight(u)
          /\ loc[u].task # out.loc.task
          /\ pc[u] = "send_handle"
          /\ Len(heap[loc[u].task].messages) = 1
          /\ heap[loc[u].task].status = "in_progress"

\* C27: no task, in the store or replaced in it, ever has status cancelled,
\* and no response carries a task with that status.
C27_NeverCancelled ==
    /\ \A k \in 1..Len(heap) : heap[k].status # "cancelled"
    /\ (out # NoOutput /\ HasResult /\ out.req.method \in {"createTask", "sendTaskMessage", "getTask"})
          => out.body.result.status # "cancelled"
    /\ (Answered("listTasks") /\ HasResult)
          => \A i \in 1..Len(out.body.result.tasks) : out.body.result.tasks[i].status # "cancelled"

\* a task was taken through failed and then completed, and is listed so
C27_Witness ==
    /\ Answered("listTasks")
    /\ Len(out.body.result.tasks) = 1
    /\ out.body.result.tasks[1].status = "completed"
    /\ Len(out.body.result.tasks[1].messages) = 4
    /\ out.body.result.tasks[1].messages[2].role = "system"

\* C28: a sendTaskMessage with valid params on a task whose last call ended
\* completed or failed is taken up like any other; the task is in_progress
\* while handle_task runs, and the call returns the task with two more
\* messages and the status its own outcome gives, whatever the status was.
C28_TerminalTaskAcceptsMessages ==
    /\ [][(/\ TakesUp(1)
            /\ TakenUp(1).method = "sendTaskMessage"
            /\ ValidSendParams(TakenUp(1))
            /\ ParamsOf(TakenUp(1)).task_id # ""
            /\ heap[Lookup(tasks, ParamsOf(TakenUp(1)).task_id)].status \in {"completed", "failed"})
           => (/\ pc'[1] = "send_add_message"
               /\ loc'[1].task = Lookup(tasks, ParamsOf(TakenUp(1)).task_id)
               /\ loc'[1].before = Len(heap[loc'[1].task].messages)
               /\ heap' = heap)]_vars
    /\ [](pc[1] = "send_handle" =>
              /\ heap[loc[1].task].status = "in_progress"
              /\ Len(heap[loc[1].task].messages) = loc[1].before + 1)
    /\ []((Answered("sendTaskMessage") /\ out.loc.task # 0) =>
              /\ HasResult
              /\ Len(out.body.result.messages) = out.loc.before + 2
              /\ out.body.result.status =
                    IF out.loc.outcome = "returned" THEN "completed" ELSE "failed")

\* the call before failed, this one completed: four messages, the second the
\* error message, the fourth the agent's
C28_Witness ==
    /\ Answered("sendTaskMessage")
    /\ HasResult
    /\ out.loc.before = 2
    /\ out.body.result.messages[2].role = "system"
    /\ out.body.result.messages[4].role = "agent"
    /\ out.body.result.status = "completed"

\* the task ids of the createTask calls so far, each at its first occurrence
RECURSIVE FirstIds(_)
FirstIds(created) ==
    IF created = <<>> THEN <<>>
    ELSE LET front == SubSeq(created, 1, Len(created) - 1)
             last  == created[Len(created)]
         IN IF \E i \in 1..Len(front) : front[i] = last
            THEN FirstIds(front)
            ELSE Append(FirstIds(front), last)

\* C30: listTasks returns one entry for each distinct task id created, in the
\* order in which the ids were first created; the entry is the task now
\* stored under the id.
C30_ListInFirstCreationOrder ==
    Answered("listTasks") =>
        /\ HasResult
        /\ LET listed == out.body.result.tasks
               ids    == FirstIds([k \in 1..Len(heap) |-> heap[k].task_id])
           IN /\ Len(listed) = Len(ids)
              /\ \A i \in 1..Len(ids) :
                    /\ listed[i].task_id = ids[i]
                    /\ listed[i] = TaskToDict(heap[Lookup(tasks, ids[i])])

\* "t1" was created, then a generated id, then "t1" again: two entries, "t1"
\* first
C30_Witness ==
    /\ Answered("listTasks")
    /\ Len(heap) = 3
    /\ heap[1].task_id = "t1" /\ heap[3].task_id = "t1" /\ heap[2].task_id # "t1"
    /\ Len(out.body.result.tasks) = 2
    /\ out.body.result.tasks[1].task_id = "t1"

\* vocabulary of the client's claims
ClientReturned(op) == cret # NoClientReturn /\ cret.op = op
\* the response is a 2xx with a JSON envelope whose error, if any, has a code
\* and a message
Transported(response) ==
    /\ response.kind = "http"
    /\ response.status \in 200..299
    /\ response.json = "dict"
    /\ ResponseDecodes(response.body)
\* the response carries a task of the data model as its result, and no error
CarriesTask(response) ==
    /\ Transported(response)
    /\ "error" \notin DOMAIN response.body
    /\ "result" \in DOMAIN response.body
    /\ response.body.result # None
    /\ TaskDecodes(response.body.result)
\* the messages of a wire task as _delegate_to_agent reads them
AsPeerMessages(ms) ==
    [i \in 1..Len(ms) |-> TaskMessageDict(JsonStr(ms[i].role), ms[i].content)]

\* C21: for every task of the data model returned by sendTaskMessage, chat
\* returns what the orchestrator's scan of the same messages returns: the
\* content of the agent-role message with the greatest index, or the literal
\* "No response from agent" when there is none.
C21_ChatAgreesWithDelegate ==
    (/\ ClientReturned("chat")
     /\ cret.calls[Len(cret.calls)].method = "sendTaskMessage"
     /\ CarriesTask(cret.response)) =>
        LET ms     == MessagesOf(cret.response.body.result)
            agents == {i \in 1..Len(ms) : ms[i].role = "agent"}
        IN /\ cret.failure = NoFailure
           /\ cret.reply = LastAgentMessage(JsonAbsent, AsPeerMessages(ms)).text
           /\ IF agents = {}
              THEN cret.reply = NoResponseText
              ELSE \E i \in agents : (\A j \in agents : j <= i) /\ cret.reply = ms[i].content

\* the returned task has four messages, the second from an agent, the last a
\* system message: the reply is the second
C21_Witness ==
    /\ ClientReturned("chat")
    /\ cret.failure = NoFailure
    /\ CarriesTask(cret.response)
    /\ Len(cret.response.body.result.messages) = 4
    /\ cret.response.body.result.messages[4].role = "system"
    /\ cret.reply = <<"reply">>

\* C22: on a 2xx response with a JSON envelope, _call_method returns the
\* envelope's result when the envelope has no error, and raises an exception
\* carrying the remote code and message when it has one, returning nothing.
C22_ResultOrRemoteError ==
    (ClientReturned("_call_method") /\ Transported(cret.response)) =>
        IF "error" \in DOMAIN cret.response.body
        THEN /\ cret.failure # NoFailure
             /\ cret.failure.code = cret.response.body.error.code
             /\ cret.failure.message = cret.response.body.error.message
             /\ cret.result = None
        ELSE /\ cret.failure = NoFailure
             /\ cret.result = IF "result" \in DOMAIN cret.response.body
                              THEN cret.response.body.result ELSE None

\* an envelope with both an error and a result: the error is raised
C22_Witness ==
    /\ ClientReturned("_call_method")
    /\ Transported(cret.response)
    /\ {"error", "result"} \subseteq DOMAIN cret.response.body
    /\ cret.failure.code = INTERNAL_ERROR
    /\ cret.failure.message = "Task not found"

\* the call failed below the envelope: no response, or a status outside 2xx
NetworkFailure(response) ==
    response.kind = "raises" \/ (response.kind = "http" /\ response.status \notin 200..299)

\* C23: a network-layer failure (no response, status outside 2xx) is raised
\* as an exception whose type is not the type raised for an envelope's error.
C23_NetworkFailureKindDistinct ==
    (ClientReturned("_call_method") /\ NetworkFailure(cret.response)) =>
        /\ cret.failure # NoFailure
        /\ cret.failure.type # RpcError(RemoteError).type

\* C24: a chat without a task_id (None or empty) posts createTask and then,
\* if that gave a task, sendTaskMessage with the task_id of that task, and
\* nothing else; a chat with a task_id posts sendTaskMessage with that task_id
\* and nothing else.
C24_ChatCreatesThenSends ==
    ClientReturned("chat") =>
        IF cret.loc.given \in {AbsentStr, ""}
        THEN /\ Len(cret.calls) \in 1..2
             /\ cret.calls[1].method = "createTask"
             /\ Len(cret.calls) = 2 <=> cret.loc.created # AbsentStr
             /\ Len(cret.calls) = 2 =>
                   /\ cret.calls[2].method = "sendTaskMessage"
                   /\ cret.calls[2].task_id = cret.loc.created
                   /\ cret.calls[2].id = cret.calls[1].id + 1
             /\ Len(cret.calls) = 1 => cret.failure # NoFailure
        ELSE /\ Len(cret.calls) = 1
             /\ cret.calls[1].method = "sendTaskMessage"
             /\ cret.calls[1].task_id = cret.loc.given

\* a chat without a task_id created the task "p1" and sent to it
C24_Witness ==
    /\ ClientReturned("chat")
    /\ cret.loc.given = AbsentStr
    /\ Len(cret.calls) = 2
    /\ cret.calls[2].task_id = "p1"
    /\ cret.failure = NoFailure
    /\ cret.reply = <<"reply">>

\* C25: an object of the data model that has been encoded with to_dict and
\* decoded with from_dict is equal to the object that was encoded.
C25_RoundTrip ==
    (value # NoValue /\ wire # NoValue /\ back # NoValue) => back = value

\* C29: no JSONRPCResponse object, constructed or decoded, has both a result
\* and an error.
C29_ResponseNeverHasBoth ==
    \A x \in {value, back} :
        x.type = "JSONRPCResponse" => ~(x.v.result # None /\ x.v.error # None)

\* a thread is between the lookup and the return of a sendTaskMessage on the
\* Task object ref
InFlightOn(ref) == \E t \in Threads : SendingOn(t, ref)

\* the shape of a task at rest: pending and empty, or settled with an even
\* number of messages, the last one the outcome its status names
AtRest(task) ==
    /\ task.status = "pending" <=> task.messages = <<>>
    /\ task.messages # <<>> =>
          /\ task.status \in {"completed", "failed"}
          /\ Len(task.messages) % 2 = 0
          /\ task.status = "completed" => task.messages[Len(task.messages)].role = "agent"
          /\ task.status = "failed" => task.messages[Len(task.messages)].role = "system"

\* C31: in every state, every task of the store on which no sendTaskMessage is
\* in flight is pending exactly when it has no messages; otherwise it is
\* completed or failed, has an even number of messages, and its last message
\* is the agent's when completed and the system's when failed.
C31_TaskAtRestIsSettled ==
    \A i \in 1..Len(tasks) : ~InFlightOn(tasks[i].ref) => AtRest(heap[tasks[i].ref])

\* thread t invokes self.handle_task in this step
InvokesHandler(t) == pc[t] = "send_handle" /\ pc'[t] # "send_handle"
Last(ms) == ms[Len(ms)]

\* C32: at every invocation of handle_task for a message, the task is
\* in_progress and the inbound message is the last of its history; and no
\* step takes a task from pending to completed or failed.
C32_InProgressBeforeHandler ==
    /\ [][\A t \in Threads : InvokesHandler(t) =>
            /\ heap[loc[t].task].status = "in_progress"
            /\ heap[loc[t].task].messages # <<>>
            /\ Last(heap[loc[t].task].messages) = loc[t].message]_vars
    /\ [][\A k \in 1..Len(heap) :
            heap[k].status = "pending" => heap'[k].status \in {"pending", "in_progress"}]_vars

\* the tasks a getTask or listTasks response carries
TasksRead ==
    IF ~HasResult THEN {}
    ELSE IF out.req.method = "getTask" THEN {out.body.result}
    ELSE {out.body.result.tasks[i] : i \in 1..Len(out.body.result.tasks)}

\* messages built by lines 199-203 and 208-212, against the inbound ones
IsOutcome(m) ==
    \/ m.role = "agent" /\ m.content = "response"
    \/ m.role = "system" /\ m.content = "Error processing task"
\* the outcome message of the last inbound message of ms is in ms
OutcomeOfLastInbound(ms) ==
    \A i \in 1..Len(ms) :
        (~IsOutcome(ms[i]) /\ \A j \in (i + 1)..Len(ms) : IsOutcome(ms[j])) =>
            \E j \in (i + 1)..Len(ms) : ms[j].call = ms[i].call

\* C33: no getTask or listTasks response shows a task as completed or failed
\* while the outcome message of the last inbound message of its history is
\* missing.
C33_ReaderSeesOutcomeWithStatus ==
    (Answered("getTask") \/ Answered("listTasks")) =>
        \A d \in TasksRead :
            d.status \in {"completed", "failed"} =>
                /\ d.messages # <<>>
                /\ OutcomeOfLastInbound(d.messages)

\* the requests.post calls of the current handle_task for one section
SectionCalls(section, method) ==
    {i \in 1..Len(calls) : calls[i].section = section /\ calls[i].method = method}
\* a createTask answered with status 200 and a result that carries a task_id
CreateSucceeded(response) ==
    /\ response.kind = "http"
    /\ response.status = 200
    /\ response.json = "result"
    /\ response.task_id # JsonAbsent

\* C34: of one handle_task, the requests posted are, per section, at most one
\* createTask and at most one sendTaskMessage, the sendTaskMessage right after
\* the createTask of its section; at most two delegations, so at most four
\* requests, are made; and a sendTaskMessage is posted only when the
\* createTask of the delegation was answered with a task, to that task's id
\* and to the same url. Every handle_task that has started returns.
C34_OneCreateThenOneSend ==
    /\ [](/\ Len(calls) <= 4
          /\ \A i \in 1..Len(calls) : calls[i].section \in {"Calculator", "Translator"}
          /\ \A section \in {"Calculator", "Translator"} :
                /\ Cardinality(SectionCalls(section, "createTask")) <= 1
                /\ Cardinality(SectionCalls(section, "sendTaskMessage")) <= 1
          /\ \A j \in 1..Len(calls) :
                calls[j].method = "sendTaskMessage" =>
                    /\ j > 1
                    /\ calls[j - 1].method = "createTask"
                    /\ calls[j - 1].section = calls[j].section
                    /\ calls[j - 1].url = calls[j].url
          /\ Len(oloc.results) <= 2)
    /\ [][(Len(calls') = Len(calls) + 1 /\ Last(calls').method = "sendTaskMessage") =>
            /\ CreateSucceeded(oloc.create_response)
            /\ Last(calls').task_id = oloc.create_response.task_id]_vars
    /\ (opc # "idle") ~> (opc = "idle")

\* the calculator's createTask failed and was not posted again; the
\* translator got its createTask and then its sendTaskMessage
C34_Witness ==
    /\ Orchestrated
    /\ Len(oret.calls) = 3
    /\ oret.calls[1].section = "Calculator"
    /\ oret.calls[2].section = "Translator"
    /\ oret.calls[3].method = "sendTaskMessage"
    /\ oret.calls[3].task_id = JsonStr("p1")
    /\ calls = oret.calls

\* the peer was unreachable or timed out, answered with a status other than
\* 200, or answered 200 with an error envelope
PeerFailed(response) ==
    \/ response.kind = "raises"
    \/ response.kind = "http" /\ response.status # 200
    \/ response.kind = "http" /\ response.status = 200 /\ response.json = "no_result"
FailureTexts == {FailedCreateText, FailedSendText, ErrorText}

\* C35: a delegation that fails returns a failure description, which becomes
\* a section of the result, and routing goes on to the next keyword set; a
\* handle_task with a section returns without raising, so the orchestrator's
\* own task is completed with an agent message carrying the sections and is
\* not failed; and with the translator matched and registered, it is
\* delegated to whatever the calculator's delegation gave.
C35_FailedDelegationIsAResult ==
    /\ [][(oret' # NoReturn /\ oret'.op = "_delegate_to_agent" /\ PeerFailed(oret'.peer)) =>
            /\ ~oret'.raised
            /\ oret'.result.text \in FailureTexts
            /\ oret'.result.agent = oloc.agent_card.name
            /\ oloc'.results = Append(oloc.results,
                                      [prefix |-> oloc.section, body |-> oret'.result])
            /\ opc' = IF oloc.section = "Calculator" THEN "trans_match" ELSE "finish"]_vars
    /\ []((Orchestrated /\ oret.loc.results # <<>>) =>
            /\ ~oret.raised
            /\ oret.result.parts = oret.loc.results
            /\ OwnTaskOutcome(oret).status = "completed"
            /\ OwnTaskOutcome(oret).role = "agent"
            /\ OwnTaskOutcome(oret).content.parts = oret.loc.results)
    /\ []((Orchestrated /\ MatchesTranslator /\ TranslatorName \in oret.loc.known) =>
            /\ CallsOf("Translator", "createTask") # {}
            /\ oret.result.parts[Len(oret.result.parts)].prefix = "Translator")

\* the calculator could not be reached, the translator replied: two sections,
\* the first the failure description
C35_Witness ==
    /\ Orchestrated
    /\ Len(oret.result.parts) = 2
    /\ oret.result.parts[1].prefix = "Calculator"
    /\ oret.result.parts[1].body.text = ErrorText
    /\ oret.result.parts[1].body.agent = CalculatorName
    /\ oret.result.parts[2].body.text = <<"reply">>
    /\ Len(oret.calls) = 3
    /\ OwnTaskOutcome(oret).status = "completed"

\* the cards register_agent can store: AgentCard.from_dict of a result that
\* decodes
CompleteCards ==
    {AgentCardFromDict(r.card) : r \in {x \in RegisterResponses : RegisterStores(x)}}
Entries(d) == {d[i] : i \in 1..Len(d)}

\* C36: the registry holds, under each name, a card as one register_agent
\* built it; a step leaves an entry as it was or replaces it, whole, with the
\* card the register_agent of that step built; and every read of handle_task,
\* the lookups of _orchestrate_task and the items _list_agents iterates over,
\* gives an entry the registry holds at that moment.
C36_RegistryReadsSeeWholeCards ==
    /\ [](\A e \in Entries(registered_agents) :
            e.ref \in CompleteCards /\ e.ref.name = e.key)
    /\ [][\A e \in Entries(registered_agents') :
            \/ e \in Entries(registered_agents)
            \/ /\ oret' # NoReturn /\ oret'.op = "register_agent"
               /\ RegisterStores(oret'.response)
               /\ e.ref = AgentCardFromDict(oret'.response.card)]_vars
    /\ [][/\ (oloc'.agent_card # oloc.agent_card /\ oloc'.agent_card # NoCard) =>
               [key |-> oloc'.agent_card.name, ref |-> oloc'.agent_card]
                   \in Entries(registered_agents)
          /\ Len(oloc'.seen) = Len(oloc.seen) + 1 =>
               Last(oloc'.seen) \in Entries(registered_agents)]_vars

\* _list_agents was given the calculator's card, the calculator was then
\* registered again with another url, and the loop went on to the end
C36_Witness ==
    /\ Registered("handle_task")
    /\ ~oret.raised
    /\ Len(oret.loc.seen) = 2
    /\ oret.loc.seen[1].key = CalculatorName
    /\ oret.loc.seen[1].ref.url = JsonStr("http://localhost:5001")
    /\ registered_agents[1].ref.url = JsonStr("http://localhost:5002")
    /\ oret.result.names = <<CalculatorName, TranslatorName>>

\* params of a sendTaskMessage that name a task of the store and lack the
\* content or carry a role that is none of user, agent and system
InvalidSendParams(r) ==
    /\ r.method = "sendTaskMessage"
    /\ HasKey(tasks, ParamsOf(r).task_id)
    /\ \/ ParamsOf(r).content = AbsentStr
       \/ ParamsOf(r).role \notin MessageRole \cup {AbsentStr}

\* C37: the step that answers a sendTaskMessage on an existing task whose
\* params lack the content or carry an invalid role answers with an error
\* envelope, leaves the store and every task (status, messages, updated_at) as
\* they were, and handle_task has not been invoked for it.
C37_InvalidSendLeavesTask ==
    [][(out' # NoOutput /\ InvalidSendParams(out'.req)) =>
          /\ "error" \in DOMAIN out'.body
          /\ "result" \notin DOMAIN out'.body
          /\ tasks' = tasks
          /\ heap' = heap
          /\ sent' = sent
          /\ out'.loc = NoLocals
          /\ \A t \in Threads : pc[t] = "idle" => pc'[t] = "idle"]_vars

\* a completed task with two messages was sent a message with an invalid
\* role: the call is answered with an error and the task is as it was
C37_Witness ==
    /\ Answered("sendTaskMessage")
    /\ InvalidSendParams(out.req)
    /\ ParamsOf(out.req).role = "bogus"
    /\ ParamsOf(out.req).content = "c1"
    /\ HasError
    /\ heap[Lookup(tasks, ParamsOf(out.req).task_id)].status = "completed"
    /\ Len(heap[Lookup(tasks, ParamsOf(out.req).task_id)].messages) = 2

\* C38: a getTask that names an id under which createTask stored a task is
\* answered with that task, and a sendTaskMessage that names such an id, with
\* content and a valid role, is answered with a result.
C38_CreatedTaskIsReachable ==
    /\ (Answered("getTask") /\ HasKey(tasks, ParamsOf(out.req).task_id)) =>
          /\ HasResult
          /\ out.body.result.task_id = ParamsOf(out.req).task_id
    /\ (Answered("sendTaskMessage") /\ ValidSendParams(out.req)) => HasResult

ReadMethods == {"getAgentCard", "getTask", "listTasks"}

\* C39: the step that answers a getAgentCard, a getTask or a listTasks, with a
\* result or with an error, is the whole call, and it leaves the store as it
\* was: the same ids in the same order, and every task with the same status,
\* messages and timestamps.
C39_ReadsLeaveStore ==
    [][(out' # NoOutput /\ out'.req.method \in ReadMethods) =>
          /\ pc[out'.thread] = "idle"
          /\ tasks' = tasks
          /\ heap' = heap
          /\ clock' = clock]_vars

\* a getTask on an unknown id is answered with an error while the store
\* holds a completed task with its two messages
C39_Witness ==
    /\ Answered("getTask")
    /\ HasError
    /\ ParamsOf(out.req).task_id = "t1"
    /\ Len(tasks) = 1
    /\ heap[tasks[1].ref].status = "completed"
    /\ Len(heap[tasks[1].ref].messages) = 2

\* the routing table: keyword set -> target, for the targets that are present
RouteTable(content, present) ==
    (IF AnyIn(CalculatorWords, content) /\ CalculatorName \in present
     THEN <<"Calculator">> ELSE <<>>)
    \o (IF AnyIn(TranslatorWords, content) /\ TranslatorName \in present
        THEN <<"Translator">> ELSE <<>>)
\* the delegations of a handle_task, in order
RECURSIVE Delegations(_)
Delegations(cs) ==
    IF cs = <<>> THEN <<>>
    ELSE IF cs[1].method = "createTask"
    THEN <<cs[1].section>> \o Delegations(Tail(cs))
    ELSE Delegations(Tail(cs))
RoutingNames == {CalculatorName, TranslatorName}

\* C40: when the presence of CalculatorAgent and of TranslatorAgent in the
\* registry is the same at the return of _orchestrate_task as at its entry,
\* the targets delegated to, in order, are those the routing table gives for
\* the content and for which of the two names are present, whatever the cards
\* declare (skills, description, url) and whatever else is registered.
C40_TargetsByContentAndPresence ==
    (Orchestrated
        /\ Keys(registered_agents) \cap RoutingNames = oret.loc.known \cap RoutingNames) =>
        Delegations(oret.calls) = RouteTable(oret.loc.content, oret.loc.known)

\* a request with both kinds of keywords, with a translator registered whose
\* card declares a skill "calculate", next to an agent of another name and no
\* calculator: the translator is the only target
C40_Witness ==
    /\ Orchestrated
    /\ MatchesCalculator /\ MatchesTranslator
    /\ oret.loc.known = {TranslatorName, JsonNull}
    /\ Keys(registered_agents) = oret.loc.known
    /\ Lookup(registered_agents, TranslatorName).skills # <<>>
    /\ Delegations(oret.calls) = <<"Translator">>
    /\ Len(oret.result.parts) = 1

====
